---------------------------- MODULE Spec2Model ----------------------------
(***************************************************************************)
(* A model of the invyntra inventory ledger: the unit normalizer, the item *)
(* cleaner and the command parser of app/inventory_utils.py and the        *)
(* tenant-bound InventoryService of app/services/inventory_service.py over *)
(* the tables of app/models.py, called by one caller at a time (Spec) and  *)
(* by two sessions whose statements interleave (SpecConcurrent).           *)
(*                                                                         *)
(* Python strings are sequences of one-character strings, so that strip,   *)
(* lower, startswith and the alias look-up are computed as the code        *)
(* computes them.  A quantity is a whole number of quanta of 1e-9 (the     *)
(* tolerance of the availability check); floating-point rounding, NaN and  *)
(* infinities are outside the model.  Timestamps are not modelled: rows    *)
(* are listed in insertion (id) order, which is a timestamp order because  *)
(* a new row always gets an id above every stored one.                     *)
(***************************************************************************)
EXTENDS Integers, Sequences, FiniteSets, TLC

(***************************************************************************)
(* Strings                                                                 *)
(***************************************************************************)

\* The characters of the model in code-point order (str comparison, sort).
CHARS ==
   << " ", "-", ".", "0", "1", "2", "3", "4", "5", "6", "7", "8", "9", "@",
      "A", "B", "C", "D", "E", "F", "G", "H", "I", "J", "K", "L", "M",
      "N", "O", "P", "Q", "R", "S", "T", "U", "V", "W", "X", "Y", "Z",
      "a", "b", "c", "d", "e", "f", "g", "h", "i", "j", "k", "l", "m",
      "n", "o", "p", "q", "r", "s", "t", "u", "v", "w", "x", "y", "z" >>

\* ord(c), as a table over the model's characters.
OrdTable ==
   [c \in {CHARS[i] : i \in 1..Len(CHARS)} |->
      CHOOSE i \in 1..Len(CHARS) : CHARS[i] = c]

Ord(c) == OrdTable[c]

IsUpper(c) == Ord(c) >= Ord("A") /\ Ord(c) <= Ord("Z")

\* str.lower() on one character (a character outside CHARS has no case).
LowerTable ==
   [c \in DOMAIN OrdTable |->
      IF IsUpper(c) THEN CHARS[Ord(c) + (Ord("a") - Ord("A"))] ELSE c]

LowerChar(c) == IF c \in DOMAIN LowerTable THEN LowerTable[c] ELSE c

\* str.lower()
Lower(s) == [i \in 1..Len(s) |-> LowerChar(s[i])]

IsSpace(c) == c = " "

RECURSIVE LStrip(_)
LStrip(s) == IF s # <<>> /\ IsSpace(Head(s)) THEN LStrip(Tail(s)) ELSE s

RECURSIVE RStrip(_)
RStrip(s) ==
   IF s # <<>> /\ IsSpace(s[Len(s)]) THEN RStrip(SubSeq(s, 1, Len(s) - 1)) ELSE s

\* str.strip()
Strip(s) == RStrip(LStrip(s))

\* s.startswith(p)
StartsWith(s, p) == Len(s) >= Len(p) /\ SubSeq(s, 1, Len(p)) = p

\* s.endswith(p)
EndsWith(s, p) == Len(s) >= Len(p) /\ SubSeq(s, Len(s) - Len(p) + 1, Len(s)) = p

\* s[n:]
DropFirst(s, n) == SubSeq(s, n + 1, Len(s))

\* s[:-n]
DropLast(s, n) == SubSeq(s, 1, Len(s) - n)

\* s.replace(c, '') for a one-character c
RemoveChar(s, c) == SelectSeq(s, LAMBDA x : x # c)

\* a < b on str: lexicographic by code point.
RECURSIVE StrLess(_, _)
StrLess(a, b) ==
   IF b = <<>> THEN FALSE
   ELSE IF a = <<>> THEN TRUE
   ELSE IF Head(a) # Head(b) THEN Ord(Head(a)) < Ord(Head(b))
   ELSE StrLess(Tail(a), Tail(b))

(***************************************************************************)
(* app/inventory_utils.py                                                  *)
(***************************************************************************)

\* _UNIT_MAP, in the dict's insertion order.
UNIT_MAP ==
   <<
      [std |-> <<"k","g">>,
       aliases |-> {<<"k","g">>, <<"k","g","s">>, <<"k","i","l","o">>,
                    <<"k","i","l","o","s">>,
                    <<"k","i","l","o","g","r","a","m">>,
                    <<"k","i","l","o","g","r","a","m","s">>}],
      [std |-> <<"g">>,
       aliases |-> {<<"g">>, <<"g","r","a","m">>, <<"g","r","a","m","s">>}],
      [std |-> <<"l">>,
       aliases |-> {<<"l">>, <<"l","t">>, <<"l","t","r">>, <<"l","t","r","s">>,
                    <<"l","i","t","e","r">>, <<"l","i","t","r","e">>,
                    <<"l","i","t","e","r","s">>, <<"l","i","t","r","e","s">>,
                    <<"l","i","t","r">>, <<"l","t","l">>}],
      [std |-> <<"m","l">>,
       aliases |-> {<<"m","l">>,
                    <<"m","i","l","l","i","l","i","t","e","r">>,
                    <<"m","i","l","l","i","l","i","t","r","e">>,
                    <<"m","i","l","l","i","l","i","t","e","r","s">>,
                    <<"m","i","l","l","i","l","i","t","r","e","s">>,
                    <<"m","i","l","l","i">>, <<"m","l","t","r">>,
                    <<"m","l","t","r","s">>}],
      [std |-> <<"p","i","e","c","e","s">>,
       aliases |-> {<<"p","c","s">>, <<"p","i","e","c","e">>,
                    <<"p","i","e","c","e","s">>, <<"p","c">>}],
      [std |-> <<"p","a","c","k","e","t">>,
       aliases |-> {<<"p","a","c","k","e","t">>, <<"p","a","c","k","e","t","s">>,
                    <<"p","k","t">>, <<"p","k","t","s">>}],
      [std |-> <<"b","o","t","t","l","e">>,
       aliases |-> {<<"b","o","t","t","l","e">>, <<"b","o","t","t","l","e","s">>}],
      [std |-> <<"b","o","x">>,
       aliases |-> {<<"b","o","x">>, <<"b","o","x","e","s">>}],
      [std |-> <<"c","a","s","e">>,
       aliases |-> {<<"c","a","s","e">>, <<"c","a","s","e","s">>}],
      [std |-> <<"c","r","a","t","e">>,
       aliases |-> {<<"c","r","a","t","e">>, <<"c","r","a","t","e","s">>}],
      [std |-> <<"b","a","g">>,
       aliases |-> {<<"b","a","g">>, <<"b","a","g","s">>}],
      [std |-> <<"c","a","r","t","o","n">>,
       aliases |-> {<<"c","a","r","t","o","n">>, <<"c","a","r","t","o","n","s">>}],
      [std |-> <<"r","o","l","l">>,
       aliases |-> {<<"r","o","l","l">>, <<"r","o","l","l","s">>}],
      [std |-> <<"d","o","z","e","n">>,
       aliases |-> {<<"d","o","z","e","n">>, <<"d","o","z","e","n","s">>,
                    <<"d","z">>}]
   >>

\* The first entry of _UNIT_MAP, in dict order, that test(entry) accepts;
\* 0 when the loop falls through.
FirstUnitEntry(test(_)) ==
   LET hits == {i \in 1..Len(UNIT_MAP) : test(UNIT_MAP[i])}
   IN  IF hits = {} THEN 0 ELSE CHOOSE i \in hits : \A j \in hits : i <= j

\* The singularization candidate of _normalize_unit; <<>> stands for None
\* (a candidate that is set is never empty).
SingularCandidate(u) ==
   IF EndsWith(u, <<"i","e","s">>) /\ Len(u) > 3 THEN DropLast(u, 3) \o <<"y">>
   ELSE IF EndsWith(u, <<"e","s">>) /\ Len(u) > 2 THEN DropLast(u, 2)
   ELSE IF EndsWith(u, <<"s">>) /\ Len(u) > 1 THEN DropLast(u, 1)
   ELSE <<>>

\* _normalize_unit without the removal of periods (line 35).
NormalizeUnitKeepingPeriods(unit) ==
   LET u    == RemoveChar(RemoveChar(Lower(Strip(unit)), "-"), " ")
       hit  == FirstUnitEntry(LAMBDA e : u \in e.aliases)
       cand == SingularCandidate(u)
       hit2 == FirstUnitEntry(LAMBDA e : cand \in e.aliases \/ cand = e.std)
   IN  IF u = <<>> THEN <<>>
       ELSE IF hit # 0 THEN UNIT_MAP[hit].std
       ELSE IF cand # <<>>
               THEN IF hit2 # 0 THEN UNIT_MAP[hit2].std ELSE cand
       ELSE u

\* _normalize_unit(unit); None is passed as the empty string.
NormalizeUnit(unit) ==
   LET u    == RemoveChar(RemoveChar(RemoveChar(Lower(Strip(unit)), "."), "-"), " ")
       hit  == FirstUnitEntry(LAMBDA e : u \in e.aliases)
       cand == SingularCandidate(u)
       hit2 == FirstUnitEntry(LAMBDA e : cand \in e.aliases \/ cand = e.std)
   IN  IF u = <<>> THEN <<>>
       ELSE IF hit # 0 THEN UNIT_MAP[hit].std
       ELSE IF cand # <<>>
               THEN IF hit2 # 0 THEN UNIT_MAP[hit2].std ELSE cand
       ELSE u

\* The leading fillers _clean_item drops, in the order of its loop.
ITEM_FILLERS == << <<"o","f"," ">>, <<"t","h","e"," ">>, <<"a"," ">>, <<"a","n"," ">> >>

\* One pass of _clean_item's loop body for prefix p.
DropFiller(s, p) ==
   IF StartsWith(Lower(s), p) THEN Strip(DropFirst(s, Len(p))) ELSE s

\* _clean_item(item): the loop runs once over the four prefixes.
RECURSIVE CleanItemFrom(_, _)
CleanItemFrom(s, i) ==
   IF i > Len(ITEM_FILLERS) THEN s
   ELSE CleanItemFrom(DropFiller(s, ITEM_FILLERS[i]), i + 1)

CleanItem(item) == CleanItemFrom(Strip(item), 1)

\* The unit tokens and item names the callers of the model pass, with what
\* the service stores of them; MemoUnit and MemoItem hold _normalize_unit and
\* _clean_item of these, computed once.
KnownUnits ==
   LET raw == {<<>>, <<"K","G","S">>, <<"k","i","l","o">>, <<"l","t","r">>}
   IN  raw \cup {NormalizeUnit(u) : u \in raw}

KnownItems ==
   LET raw == {<<"R","i","c","e">>, <<" ","t","h","e"," ","r","i","c","e">>,
               <<"r","i","c","e">>, <<"O","i","l">>, <<" "," ">>, <<>>}
   IN  raw \cup {Strip(i) : i \in raw}

MemoUnit == [u \in KnownUnits |-> NormalizeUnit(u)]

MemoItem == [i \in KnownItems |-> CleanItem(i)]

\* _normalize_unit(unit), looked up when the token is a known one.
NormalizeUnitOf(unit) ==
   IF unit \in DOMAIN MemoUnit THEN MemoUnit[unit] ELSE NormalizeUnit(unit)

\* _clean_item(item), looked up when the name is a known one.
CleanItemOf(item) ==
   IF item \in DOMAIN MemoItem THEN MemoItem[item] ELSE CleanItem(item)

(***************************************************************************)
(* The ledger store: the tables of app/models.py                           *)
(***************************************************************************)

VARIABLES
   items,    \* table items: rows [id, owner_key, name, normalized_name, unit]
   txns,     \* table transactions: rows [id, owner_key, item_id, kind, qty, ...]
   snaps,    \* table stock_snapshots: rows [id, owner_key, label, actor, data]
   audits,   \* table audit_logs, in insertion order (rows are never removed)
   users,    \* table auth_users: rows [id, email, phone_e164, pwd_hash, ...]
   otps,     \* table auth_otps: rows [id, email, phone_e164, code, purpose, expires_at]
   clock,    \* datetime.utcnow(), in minutes
   last      \* the last service call: who called what, and what came back

vars == <<items, txns, snaps, audits, users, otps, clock, last>>

store == <<items, txns, snaps, audits>>

\* The tables of app/auth_models.py, and the time their rows are read at.
auth == <<users, otps, clock>>

\* Python's None where a value may be absent (no Python string equals it).
None == <<"None">>

\* x or ""
OrEmpty(x) == IF x = None THEN <<>> ELSE x

\* The id SQLite gives a new row of an INTEGER PRIMARY KEY table: one above
\* the largest stored id (ids of deleted rows at the top are reused).
NextId(table) ==
   IF table = {} THEN 1
   ELSE (CHOOSE r \in table : \A q \in table : q.id <= r.id).id + 1

\* The rows of a table as a sequence in ascending id order.
RECURSIVE ById(_)
ById(table) ==
   IF table = {} THEN <<>>
   ELSE LET r == CHOOSE r \in table : \A q \in table : r.id <= q.id
        IN  <<r>> \o ById(table \ {r})

\* The same rows, largest id first.
RECURSIVE ByIdDesc(_)
ByIdDesc(table) ==
   IF table = {} THEN <<>>
   ELSE LET r == CHOOSE r \in table : \A q \in table : q.id <= r.id
        IN  <<r>> \o ByIdDesc(table \ {r})

(***************************************************************************)
(* json.dumps / json.loads, at the level of tokens: a token is a pair     *)
(* <<kind, text>> with kind one of "[", "]", "{", "}", "str", "num",       *)
(* "null"; a number is written in decimal digits and read back from them.  *)
(***************************************************************************)

DIGITS == <<"0", "1", "2", "3", "4", "5", "6", "7", "8", "9">>

RECURSIVE FormatNat(_)
FormatNat(n) ==
   IF n < 10 THEN <<DIGITS[n + 1]>>
   ELSE FormatNat(n \div 10) \o <<DIGITS[(n % 10) + 1]>>

\* The text of a number with its sign dropped.
FormatNumUnsigned(n) == IF n < 0 THEN FormatNat(-n) ELSE FormatNat(n)

\* The text json.dumps writes for a number.
FormatNum(n) == IF n < 0 THEN <<"-">> \o FormatNat(-n) ELSE FormatNat(n)

DigitValue(c) == (CHOOSE i \in 1..10 : DIGITS[i] = c) - 1

IsDigit(c) == \E i \in 1..10 : DIGITS[i] = c

RECURSIVE ParseNat(_)
ParseNat(s) ==
   IF s = <<>> THEN 0
   ELSE 10 * ParseNat(DropLast(s, 1)) + DigitValue(s[Len(s)])

IsNumberText(s) ==
   LET d == IF s # <<>> /\ Head(s) = "-" THEN Tail(s) ELSE s
   IN  d # <<>> /\ \A i \in 1..Len(d) : IsDigit(d[i])

\* The number json.loads / float() reads from a text that IsNumberText.
ParseNum(s) == IF Head(s) = "-" THEN -ParseNat(Tail(s)) ELSE ParseNat(s)

StrTok(s) == <<"str", s>>

NumTok(n) == <<"num", FormatNum(n)>>

\* The token of a value that is a string or None.
StrOrNullTok(x) == IF x = None THEN <<"null", <<>>>> ELSE StrTok(x)

Punct(k) == <<k, <<>>>>

K_item == <<"i","t","e","m">>
K_unit == <<"u","n","i","t">>
K_location == <<"l","o","c","a","t","i","o","n">>
K_net_quantity == <<"n","e","t","_","q","u","a","n","t","i","t","y">>
K_quantity == <<"q","u","a","n","t","i","t","y">>
K_source == <<"s","o","u","r","c","e">>
K_label == <<"l","a","b","e","l">>
K_count == <<"c","o","u","n","t">>

\* json.dumps of a dict given as a sequence of <<key, value token>> pairs.
RECURSIVE DumpsPairs(_)
DumpsPairs(pairs) ==
   IF pairs = <<>> THEN <<>>
   ELSE <<StrTok(Head(pairs)[1]), Head(pairs)[2]>> \o DumpsPairs(Tail(pairs))

DumpsDict(pairs) == <<Punct("{")>> \o DumpsPairs(pairs) \o <<Punct("}")>>

\* The dict of one aggregate row, in the key order aggregate_inventory builds.
RowPairs(row) ==
   << <<K_item, StrTok(row.item)>>,
      <<K_unit, StrTok(row.unit)>>,
      <<K_location, StrTok(row.location)>>,
      <<K_net_quantity, NumTok(row.net_quantity)>> >>

RECURSIVE DumpsRowsFrom(_)
DumpsRowsFrom(rows) ==
   IF rows = <<>> THEN <<>>
   ELSE DumpsDict(RowPairs(Head(rows))) \o DumpsRowsFrom(Tail(rows))

\* json.dumps(snapshot_rows)
DumpsRows(rows) == <<Punct("[")>> \o DumpsRowsFrom(rows) \o <<Punct("]")>>

\* The tokens of one aggregate row are ten: { k v k v k v k v }.
ROW_TOKENS == 10

WellFormedRow(t) ==
   /\ t[1] = Punct("{") /\ t[10] = Punct("}")
   /\ t[2] = StrTok(K_item) /\ t[3][1] = "str"
   /\ t[4] = StrTok(K_unit) /\ t[5][1] = "str"
   /\ t[6] = StrTok(K_location) /\ t[7][1] = "str"
   /\ t[8] = StrTok(K_net_quantity) /\ t[9][1] = "num" /\ IsNumberText(t[9][2])

LoadRow(t) ==
   [item |-> t[3][2], unit |-> t[5][2], location |-> t[7][2],
    net_quantity |-> ParseNum(t[9][2])]

\* Whether json.loads accepts the text as a list of aggregate rows.
LoadsOk(text) ==
   /\ Len(text) >= 2
   /\ Head(text) = Punct("[") /\ text[Len(text)] = Punct("]")
   /\ (Len(text) - 2) % ROW_TOKENS = 0
   /\ \A k \in 0..((Len(text) - 2) \div ROW_TOKENS) - 1 :
         WellFormedRow(SubSeq(text, 2 + k * ROW_TOKENS, 1 + (k + 1) * ROW_TOKENS))

\* json.loads(snap.data), with list_snapshots' fallback to [] when it raises.
LoadsRows(text) ==
   IF LoadsOk(text)
      THEN [k \in 1..((Len(text) - 2) \div ROW_TOKENS) |->
              LoadRow(SubSeq(text, 2 + (k - 1) * ROW_TOKENS, 1 + k * ROW_TOKENS))]
      ELSE <<>>

(***************************************************************************)
(* app/services/inventory_service.py: helpers                              *)
(***************************************************************************)

\* The tolerance of the availability check, 1e-9, in quanta.
TOL == 1

\* _clean_owner with the key left in the letter case it was given in.
CleanOwnerKeepingCase(owner_key) == Strip(OrEmpty(owner_key))

\* _clean_owner(owner_key)
CleanOwner(owner_key) == Lower(Strip(OrEmpty(owner_key)))

\* _normalize_location(location)
NormalizeLocation(location) == Lower(Strip(location))

A_add == <<"a","d","d">>
A_remove == <<"r","e","m","o","v","e">>

\* float(quantity_raw) if quantity_raw not in (None, "") else math.nan, for a
\* raw quantity [kind, text, num] that is None, a str or a number.
QuantityOf(q) ==
   IF q.kind = "num" THEN [raises |-> FALSE, nan |-> FALSE, val |-> q.num]
   ELSE IF q.kind = "none" \/ q.text = <<>>
      THEN [raises |-> FALSE, nan |-> TRUE, val |-> 0]
   ELSE IF IsNumberText(Strip(q.text))
      THEN [raises |-> FALSE, nan |-> FALSE, val |-> ParseNum(Strip(q.text))]
   ELSE [raises |-> TRUE, nan |-> FALSE, val |-> 0]

\* a or b, for strings.
OrElse(a, b) == IF a # <<>> THEN a ELSE b

\* The SELECT of _ensure_item without the owner in its WHERE clause.
SelectItemAnyOwner(owner, normalized) ==
   {i \in items : i.normalized_name = normalized}

\* The SELECT of _ensure_item: the items of the owner with this normalized
\* name (the unique constraint leaves at most one).
SelectItem(owner, normalized) ==
   {i \in items : i.owner_key = owner /\ i.normalized_name = normalized}

\* .limit(1).scalar_one_or_none() of a non-empty result.
FirstById(found) == CHOOSE i \in found : \A j \in found : i.id <= j.id

\* _ensure_item with the unit of every command that has one written to the
\* item.
BackFilledAlways(old, unit_norm) ==
   IF unit_norm # <<>> THEN [old EXCEPT !.unit = unit_norm] ELSE old

\* if unit_norm and not item.unit: item.unit = unit_norm
BackFilled(old, unit_norm) ==
   IF unit_norm # <<>> /\ old.unit = <<>> THEN [old EXCEPT !.unit = unit_norm] ELSE old

\* The Item row _ensure_item creates.
NewItem(owner, item_raw, normalized, unit_norm) ==
   [id |-> NextId(items),
    owner_key |-> owner,
    name |-> OrElse(Strip(item_raw), normalized),
    normalized_name |-> normalized,
    unit |-> unit_norm]

\* What _ensure_item gives: whether it raised, whether it created a row, the
\* item returned, and table items as the session sees it afterwards.
Ensured(error, created, item, table) ==
   [error |-> error, created |-> created, item |-> item, items |-> table]

EnsureNormalized(owner, item_raw, unit_norm, normalized, found) ==
   IF normalized = <<>> THEN Ensured(TRUE, FALSE, None, items)
   ELSE IF found # {}
      THEN Ensured(FALSE, FALSE, BackFilled(FirstById(found), unit_norm),
                   (items \ {FirstById(found)})
                      \cup {BackFilled(FirstById(found), unit_norm)})
   ELSE Ensured(FALSE, TRUE, NewItem(owner, item_raw, normalized, unit_norm),
                items \cup {NewItem(owner, item_raw, normalized, unit_norm)})

\* InventoryService._ensure_item
EnsureItem(owner, item_raw, unit_norm) ==
   EnsureNormalized(owner, item_raw, unit_norm, Lower(CleanItemOf(item_raw)),
                    SelectItem(owner, Lower(CleanItemOf(item_raw))))

\* case((Txn.kind == "IN", Txn.qty), else_=-Txn.qty)
Signed(t) == IF t.kind = "IN" THEN t.qty ELSE -t.qty

\* sum(rows) over the signed quantities of a set of transactions.
RECURSIVE SignedSum(_)
SignedSum(rows) ==
   IF rows = {} THEN 0
   ELSE LET t == CHOOSE t \in rows : TRUE
        IN  Signed(t) + SignedSum(rows \ {t})

\* InventoryService._available_quantity
AvailableQuantity(owner, item, location_norm) ==
   SignedSum({t \in txns : /\ t.owner_key = owner
                           /\ t.item_id = item.id
                           /\ t.location_normalized = location_norm})

\* InventoryService._record_to_dict (the timestamp is not modelled).
RecordToDict(txn, item) ==
   [id |-> txn.id,
    action |-> IF txn.kind = "IN" THEN A_add ELSE A_remove,
    item |-> item.name,
    quantity |-> txn.qty,
    unit |-> IF txn.unit # <<>> THEN txn.unit ELSE item.unit,
    location |-> txn.location,
    note |-> txn.note,
    by |-> txn.entered_by,
    source |-> txn.source]

\* The row InventoryService._audit adds.
AuditRow(owner, actor, action, entity, reference_id, payload) ==
   [owner_key |-> owner, actor |-> actor, action |-> action, entity |-> entity,
    reference_id |-> reference_id, payload |-> payload]

NoError == [kind |-> "", available |-> 0, unit |-> <<>>, item |-> <<>>, location |-> <<>>]

Error(kind) == [NoError EXCEPT !.kind = kind]

(***************************************************************************)
(* InventoryService.record_command                                         *)
(***************************************************************************)

INVENTORY_DOT == <<"i","n","v","e","n","t","o","r","y",".">>

\* The statements of record_command that reach the database, in order.
RECORD_STEPS ==
   <<"select_item", "flush_item", "select_available", "flush_txn",
     "refresh_txn", "commit", "refresh_item", "load_view">>

\* Those that run after session.commit(): session.refresh(item) and the
\* reload of the expired txn in _record_to_dict.
RECORD_STEPS_AFTER_COMMIT == {"refresh_item", "load_view"}

\* The values record_command computes from its arguments before it opens
\* the session.
Normalized(command, actor, source) ==
   [q             |-> QuantityOf(command.quantity),
    action_raw    |-> Lower(Strip(command.action)),
    unit_norm     |-> NormalizeUnitOf(command.unit),
    location      |-> Strip(command.location),
    location_norm |-> NormalizeLocation(Strip(command.location)),
    note          |-> Strip(command.note),
    item_raw      |-> Strip(command.item),
    actor_name    |-> Strip(actor),
    source        |-> source]

\* kind = "IN" if action_raw == "add" else "OUT"
Kind(n) == IF n.action_raw = A_add THEN "IN" ELSE "OUT"

\* unit_norm after `if not unit_norm: unit_norm = item.unit or ""'.
UnitUsed(n, item) == IF n.unit_norm = <<>> THEN item.unit ELSE n.unit_norm

\* The Txn row record_command adds.
NewTxn(owner, n, item) ==
   [id |-> NextId(txns),
    owner_key |-> owner,
    item_id |-> item.id,
    kind |-> Kind(n),
    qty |-> n.q.val,
    unit |-> OrElse(UnitUsed(n, item), item.unit),
    note |-> n.note,
    location |-> n.location,
    location_normalized |-> n.location_norm,
    entered_by |-> n.actor_name,
    source |-> n.source]

\* The audit row record_command adds for the new transaction.
RecordAudit(owner, n, item, txn) ==
   AuditRow(owner, n.actor_name, INVENTORY_DOT \o n.action_raw, <<"t","x","n">>, txn.id,
            DumpsDict(<< <<K_item, StrTok(item.name)>>,
                         <<K_quantity, NumTok(n.q.val)>>,
                         <<K_unit, StrTok(txn.unit)>>,
                         <<K_location, StrTok(txn.location)>>,
                         <<K_source, StrTok(n.source)>> >>))

\* record_command raising InventoryError: the session is rolled back.
Rejected(err, steps) ==
   [outcome |-> "InventoryError", error |-> err, value |-> None,
    items |-> items, txns |-> txns, audits |-> audits, reached |-> steps]

\* The database steps reached when the stock check is done.
StepsSoFar(n, ens) ==
   {"select_item"} \cup (IF ens.created THEN {"flush_item"} ELSE {})
                   \cup (IF Kind(n) = "OUT" THEN {"select_available"} ELSE {})

\* The transaction and its audit row added and committed, the view returned.
Recorded(owner, n, ens, txn) ==
   [outcome |-> "ok", error |-> NoError,
    value |-> RecordToDict(txn, ens.item),
    items |-> ens.items,
    txns |-> txns \cup {txn},
    audits |-> Append(audits, RecordAudit(owner, n, ens.item, txn)),
    reached |-> StepsSoFar(n, ens) \cup {"flush_txn", "refresh_txn", "commit",
                                         "refresh_item", "load_view"}]

\* record_command without the stock check of a removal (what the check
\* contributes is seen by leaving it out).
RecordUnchecked(owner, n, ens, available) ==
   Recorded(owner, n, ens, NewTxn(owner, n, ens.item))

\* The stock check of a removal with the session left as it is when the
\* check fails: the item _ensure_item flushed or back-filled stays.
RecordCheckedNoRollback(owner, n, ens, available) ==
   IF Kind(n) = "OUT" /\ n.q.val > available + TOL
      THEN [Rejected([kind |-> "insufficient",
                      available |-> available,
                      unit |-> UnitUsed(n, ens.item),
                      item |-> ens.item.name,
                      location |-> n.location], StepsSoFar(n, ens))
               EXCEPT !.items = ens.items]
      ELSE Recorded(owner, n, ens, NewTxn(owner, n, ens.item))

\* The stock check of a removal, with what _available_quantity returned.
RecordChecked(owner, n, ens, available) ==
   IF Kind(n) = "OUT" /\ n.q.val > available + TOL
      THEN Rejected([kind |-> "insufficient",
                     available |-> available,
                     unit |-> UnitUsed(n, ens.item),
                     item |-> ens.item.name,
                     location |-> n.location], StepsSoFar(n, ens))
      ELSE Recorded(owner, n, ens, NewTxn(owner, n, ens.item))

\* The try block, with what _ensure_item gave.
RecordEnsured(owner, n, ens) ==
   IF ens.error THEN Rejected(Error("item"), {})
   ELSE RecordChecked(owner, n, ens,
                      AvailableQuantity(owner, ens.item, n.location_norm))

\* The validation of record_command without the check that the quantity is
\* a number above zero (line 151).
RecordNormalizedAnyQuantity(owner, n) ==
   IF n.q.raises THEN Rejected(Error("numeric"), {})
   ELSE IF n.action_raw \notin {A_add, A_remove} THEN Rejected(Error("action"), {})
   ELSE RecordEnsured(owner, n, EnsureItem(owner, n.item_raw, n.unit_norm))

RecordNormalized(owner, n) ==
   IF n.q.raises THEN Rejected(Error("numeric"), {})
   ELSE IF n.action_raw \notin {A_add, A_remove} THEN Rejected(Error("action"), {})
   ELSE IF n.q.nan \/ n.q.val <= 0 THEN Rejected(Error("positive"), {})
   ELSE RecordEnsured(owner, n, EnsureItem(owner, n.item_raw, n.unit_norm))

\* What record_command does when the store does not fail: the outcome, the
\* tables as committed, the view returned, and the database steps reached.
RecordCommandResult(owner, command, actor, source) ==
   RecordNormalized(owner, Normalized(command, actor, source))

(***************************************************************************)
(* InventoryService: list_transactions, delete_transactions,               *)
(* clear_transactions, aggregate_inventory                                 *)
(***************************************************************************)

\* The Item row a transaction refers to, in a table of items.
ItemIn(its, txn) == CHOOSE i \in its : i.id = txn.item_id

ItemOf(txn) == ItemIn(items, txn)

\* select(Txn, Item).join(Item, Item.id == Txn.item_id) for one owner, read
\* from tables its and tx.
JoinedIn(its, tx, owner) ==
   {t \in tx : t.owner_key = owner /\ \E i \in its : i.id = t.item_id}

JoinedTxns(owner) == JoinedIn(items, txns, owner)

\* [self._record_to_dict(txn, item) for txn, item in rows]
ListedRows(its, rows) ==
   [k \in 1..Len(rows) |-> RecordToDict(rows[k], ItemIn(its, rows[k]))]

\* InventoryService.list_transactions, reading tables its and tx.
ListTransactionsIn(its, tx, owner) == ListedRows(its, ById(JoinedIn(its, tx, owner)))

\* InventoryService.list_transactions
ListTransactions(owner) == ListTransactionsIn(items, txns, owner)

SeqRange(s) == {s[k] : k \in 1..Len(s)}

AUDIT_DELETE == <<"i","n","v","e","n","t","o","r","y",".","d","e","l","e","t","e">>
AUDIT_SNAPSHOT == <<"i","n","v","e","n","t","o","r","y",".","s","n","a","p","s","h","o","t">>
AUDIT_SNAPSHOT_DELETE == <<"i","n","v","e","n","t","o","r","y",".","s","n","a","p","s","h","o","t",".","d","e","l","e","t","e">>
ENTITY_TXN == <<"t","x","n">>
ENTITY_SNAPSHOT == <<"s","n","a","p","s","h","o","t">>

\* The audit row delete_transactions adds for one selected row.
DeleteAudit(owner, actor, txn) ==
   AuditRow(owner, actor, AUDIT_DELETE, ENTITY_TXN, txn.id,
            DumpsDict(<< <<K_item, StrTok(ItemOf(txn).name)>>,
                         <<K_quantity, NumTok(txn.qty)>>,
                         <<K_unit, StrTok(txn.unit)>>,
                         <<K_location, StrTok(txn.location)>> >>))

\* The audit rows delete_transactions adds for the selected rows (the SELECT
\* has no ORDER BY; the rows are taken in id order).
DeleteAudits(owner, actor, rows) ==
   [k \in 1..Len(rows) |-> DeleteAudit(owner, actor, rows[k])]

\* The statements of delete_transactions that reach the database.
DELETE_STEPS == <<"select_rows", "delete_rows", "commit">>

\* The rows the SELECT of delete_transactions returns.
SelectedRows(owner, ids) == {t \in JoinedTxns(owner) : t.id \in ids}

\* The DELETE of delete_transactions made to spare the rows whose removal
\* would leave a bucket of the ledger below zero.
DoomedRowsKeepingStock(owner, ids) ==
   LET kept == {t \in txns : ~(t.owner_key = owner /\ t.id \in ids)}
   IN  IF \A t \in kept :
             SignedSum({u \in kept : /\ u.owner_key = t.owner_key
                                     /\ u.item_id = t.item_id
                                     /\ u.location_normalized = t.location_normalized})
                >= -TOL
          THEN txns \ kept
          ELSE {}

\* The DELETE of delete_transactions without the owner in its WHERE clause.
DoomedRowsAnyOwner(owner, ids) == {t \in txns : t.id \in ids}

\* The rows the DELETE of delete_transactions removes.
DoomedRows(owner, ids) == {t \in txns : t.owner_key = owner /\ t.id \in ids}

\* The outcome of a call that purges from the audit log the entries of the
\* transactions that are no longer stored.
OutcomePurgingAudits(value, table, log, steps) ==
   [value |-> value, txns |-> table,
    audits |-> SelectSeq(log, LAMBDA e : \/ e.entity # ENTITY_TXN
                                         \/ e.action = AUDIT_DELETE
                                         \/ \E t \in table : t.id = e.reference_id),
    reached |-> steps]

\* What a call on tables txns and audit_logs gives: the value returned, the
\* tables as committed, and the database steps reached.
Outcome(value, table, log, steps) ==
   [value |-> value, txns |-> table, audits |-> log, reached |-> steps]

\* InventoryService.delete_transactions when the store does not fail.
DeleteTransactionsResult(owner, txn_ids, actor) ==
   IF txn_ids = <<>> THEN Outcome(0, txns, audits, {})
   ELSE Outcome(Cardinality(DoomedRows(owner, SeqRange(txn_ids))),
                txns \ DoomedRows(owner, SeqRange(txn_ids)),
                IF DoomedRows(owner, SeqRange(txn_ids)) # {}
                   THEN audits \o DeleteAudits(owner, actor,
                                    ById(SelectedRows(owner, SeqRange(txn_ids))))
                   ELSE audits,
                SeqRange(DELETE_STEPS))

\* clear_transactions handing on the first id it selected only.
FirstOwnId(rows) == <<rows[1].id>>

\* The ids clear_transactions selects.
OwnIds(rows) == [k \in 1..Len(rows) |-> rows[k].id]

\* InventoryService.clear_transactions: the ids it selects, handed to
\* delete_transactions.
ClearTransactionsResult(owner, actor) ==
   IF {t \in txns : t.owner_key = owner} = {} THEN Outcome(0, txns, audits, {})
   ELSE DeleteTransactionsResult(owner,
           OwnIds(ById({t \in txns : t.owner_key = owner})), actor)

\* The grouping key aggregate_inventory computes for a listed record.
AggregateKey(rec) ==
   [item |-> Lower(CleanItemOf(rec.item)),
    unit |-> NormalizeUnitOf(rec.unit),
    location |-> Lower(Strip(rec.location))]

\* totals[key] = totals.get(key, 0.0) + qty
AddTo(totals, key, qty) ==
   [k \in DOMAIN totals \cup {key} |->
      IF k = key THEN (IF key \in DOMAIN totals THEN totals[key] ELSE 0) + qty
      ELSE totals[k]]

\* The quantity of a record with its action ignored.
UnsignedQuantity(rec) == rec.quantity

\* qty if rec["action"] == "add" else -qty
SignedQuantity(rec) == IF rec.action = A_add THEN rec.quantity ELSE -rec.quantity

\* The dict totals after the first n rounds of the loop over the records.
RECURSIVE TotalsUpTo(_, _)
TotalsUpTo(recs, n) ==
   IF n = 0 THEN [k \in {} |-> 0]
   ELSE AddTo(TotalsUpTo(recs, n - 1), AggregateKey(recs[n]), SignedQuantity(recs[n]))

\* The dict totals after the loop over the listed records.
Totals(recs) == TotalsUpTo(recs, Len(recs))

\* (r["item"], r["location"], r["unit"]) < the same of another row.
RowLess(a, b) ==
   \/ StrLess(a.item, b.item)
   \/ /\ a.item = b.item
      /\ \/ StrLess(a.location, b.location)
         \/ a.location = b.location /\ StrLess(a.unit, b.unit)

\* result.sort(key=...) over rows with pairwise distinct keys.
RECURSIVE SortRows(_)
SortRows(rows) ==
   IF rows = {} THEN <<>>
   ELSE LET r == CHOOSE r \in rows : \A q \in rows \ {r} : RowLess(r, q)
        IN  <<r>> \o SortRows(rows \ {r})

\* The result list built from totals.items(), sorted.
TotalsRows(totals) ==
   SortRows({[item |-> k.item, unit |-> k.unit, location |-> k.location,
              net_quantity |-> totals[k]] : k \in DOMAIN totals})

\* InventoryService.aggregate_inventory, reading tables its and tx.
AggregateInventoryIn(its, tx, owner) ==
   TotalsRows(Totals(ListTransactionsIn(its, tx, owner)))

\* InventoryService.aggregate_inventory
AggregateInventory(owner) == AggregateInventoryIn(items, txns, owner)

(***************************************************************************)
(* InventoryService: create_snapshot, list_snapshots, delete_snapshot      *)
(***************************************************************************)

\* The view create_snapshot and list_snapshots return (created_at is not
\* modelled).
SnapshotView(snap, data) ==
   [id |-> snap.id, label |-> OrEmpty(snap.label), actor |-> OrEmpty(snap.actor),
    data |-> data]

\* The statements of create_snapshot that reach the database; the first is
\* the read of aggregate_inventory before the session is opened, the last
\* the reload of the expired snapshot for the returned view.
SNAPSHOT_STEPS == <<"aggregate", "flush_snap", "refresh_snap", "commit", "load_view">>

SNAPSHOT_STEPS_AFTER_COMMIT == {"load_view"}

\* label.strip() if label else None
CleanLabel(label) == IF Strip(OrEmpty(label)) # <<>> THEN Strip(OrEmpty(label)) ELSE None

\* The StockSnapshot row create_snapshot adds.
NewSnapshot(owner, actor, label, snapshot_rows) ==
   [id |-> NextId(snaps),
    owner_key |-> owner,
    label |-> CleanLabel(label),
    actor |-> actor,
    data |-> DumpsRows(snapshot_rows)]

\* The audit row create_snapshot adds.
SnapshotAudit(owner, actor, snap, snapshot_rows) ==
   AuditRow(owner, actor, AUDIT_SNAPSHOT, ENTITY_SNAPSHOT, snap.id,
            DumpsDict(<< <<K_label, StrOrNullTok(snap.label)>>,
                         <<K_count, NumTok(Len(snapshot_rows))>> >>))

\* What a call on tables stock_snapshots and audit_logs gives.
SnapshotOutcome(value, table, log, steps) ==
   [value |-> value, snaps |-> table, audits |-> log, reached |-> steps]

\* create_snapshot keeping only the newest snapshot of the tenant.
SnapshotReplacing(owner, actor, snap, snapshot_rows) ==
   SnapshotOutcome(SnapshotView(snap, snapshot_rows),
                   {s \in snaps : s.owner_key # owner} \cup {snap},
                   Append(audits, SnapshotAudit(owner, actor, snap, snapshot_rows)),
                   SeqRange(SNAPSHOT_STEPS))

SnapshotCreated(owner, actor, snap, snapshot_rows) ==
   SnapshotOutcome(SnapshotView(snap, snapshot_rows),
                   snaps \cup {snap},
                   Append(audits, SnapshotAudit(owner, actor, snap, snapshot_rows)),
                   SeqRange(SNAPSHOT_STEPS))

SnapshotOf(owner, actor, label, snapshot_rows) ==
   SnapshotCreated(owner, actor, NewSnapshot(owner, actor, label, snapshot_rows),
                   snapshot_rows)

\* InventoryService.create_snapshot when the store does not fail.
CreateSnapshotResult(owner, actor, label) ==
   SnapshotOf(owner, actor, label, AggregateInventory(owner))

\* The views list_snapshots builds of the rows it selected.
SnapshotViews(rows) ==
   [k \in 1..Len(rows) |-> SnapshotView(rows[k], LoadsRows(rows[k].data))]

\* InventoryService.list_snapshots, reading table sn (newest first: rows of
\* one second tie, and are taken in descending id order).
ListSnapshotsIn(sn, owner) ==
   SnapshotViews(ByIdDesc({s \in sn : s.owner_key = owner}))

\* InventoryService.list_snapshots
ListSnapshots(owner) == ListSnapshotsIn(snaps, owner)

\* The statements of delete_snapshot that reach the database.
SNAPSHOT_DELETE_STEPS == <<"select_snap", "commit">>

\* The SELECT of delete_snapshot without the owner in its filter.
SelectSnapshotAnyOwner(owner, snapshot_id) == {sn \in snaps : sn.id = snapshot_id}

\* The SELECT of delete_snapshot.
SelectSnapshot(owner, snapshot_id) ==
   {sn \in snaps : sn.owner_key = owner /\ sn.id = snapshot_id}

\* The audit row delete_snapshot adds.
SnapshotDeleteAudit(owner, actor, snap) ==
   AuditRow(owner, actor, AUDIT_SNAPSHOT_DELETE, ENTITY_SNAPSHOT, snap.id,
            DumpsDict(<< <<K_label, StrTok(OrEmpty(snap.label))>> >>))

SnapshotDeleted(owner, actor, snap) ==
   SnapshotOutcome(TRUE, snaps \ {snap},
                   Append(audits, SnapshotDeleteAudit(owner, actor, snap)),
                   SeqRange(SNAPSHOT_DELETE_STEPS))

\* InventoryService.delete_snapshot when the store does not fail.
DeleteSnapshotResult(owner, snapshot_id, actor) ==
   IF SelectSnapshot(owner, snapshot_id) = {}
      THEN SnapshotOutcome(FALSE, snaps, audits, {"select_snap"})
      ELSE SnapshotDeleted(owner, actor,
                           CHOOSE sn \in SelectSnapshot(owner, snapshot_id) : TRUE)

(***************************************************************************)
(* The callers: two services, and the arguments they pass                  *)
(***************************************************************************)

\* The length of the audit log at which the callers stop writing.
MaxAudit == 3

\* The owner keys the services are constructed with.
RawOwnerKeys == {<<"A","n","n"," ">>, <<"b","o","b">>}

\* self._owner_key of each service (an empty key is refused by __init__).
Services == {CleanOwner(k) : k \in {r \in RawOwnerKeys : CleanOwner(r) # <<>>}}

Actors == {<<"t","e","s","t","e","r">>}

Sources == {<<"m","a","n","u","a","l">>}

\* label=None and a label with blanks around it.
Labels == {None, <<" ","e","o","d"," ">>}

Num(n) == [kind |-> "num", text |-> <<>>, num |-> n]

Text(s) == [kind |-> "str", text |-> s, num |-> 0]

NoQuantity == [kind |-> "none", text |-> <<>>, num |-> 0]

Cmd(action, item, n, unit, location) ==
   [action |-> action, item |-> item, quantity |-> Num(n), unit |-> unit,
    location |-> location, note |-> <<>>]

\* Commands that pass validation: quantities 1 (the tolerance), 5 and 10,
\* of two items, with and without a unit, in the default stock and a pantry.
GoodCommands ==
   { Cmd(A_add, <<"R","i","c","e">>, 10, <<"K","G","S">>, <<>>),
     Cmd(A_add, <<" ","t","h","e"," ","r","i","c","e">>, 5, <<>>, <<"P","a","n","t","r","y"," ">>),
     Cmd(A_add, <<"O","i","l">>, 5, <<"l","t","r">>, <<>>),
     Cmd(<<" ","R","e","m","o","v","e">>, <<"r","i","c","e">>, 5, <<"k","i","l","o">>, <<>>),
     Cmd(A_remove, <<"R","i","c","e">>, 1, <<>>, <<"p","a","n","t","r","y">>),
     Cmd(A_remove, <<"O","i","l">>, 10, <<"l","t","r">>, <<>>) }

\* Commands that validation refuses, one for each way.
BadCommands ==
   LET good == Cmd(A_add, <<"R","i","c","e">>, 5, <<"K","G","S">>, <<>>)
   IN  { [good EXCEPT !.quantity = NoQuantity],
         [good EXCEPT !.quantity = Text(<<"a","b","c">>)],
         [good EXCEPT !.quantity = Num(0)],
         [good EXCEPT !.quantity = Num(-5)],
         [good EXCEPT !.action = <<"m","o","v","e">>],
         [good EXCEPT !.item = <<" "," ">>] }

Commands == GoodCommands \cup BadCommands

\* The commands during which the store is made to fail.
FaultCommands ==
   { Cmd(A_add, <<"R","i","c","e">>, 10, <<"K","G","S">>, <<>>),
     Cmd(<<" ","R","e","m","o","v","e">>, <<"r","i","c","e">>, 5, <<"k","i","l","o">>, <<>>) }

\* The id of the snapshot during whose deletion the store is made to fail.
FaultIds == {1}

\* The label of the snapshot during whose creation the store is made to fail.
FaultLabels == {<<" ","e","o","d"," ">>}

\* The ids a caller may name: no row gets an id above MaxAudit.
Ids == 1..MaxAudit

\* The id lists handed to delete_transactions: no id, one id, one id twice,
\* two ids.
IdLists == {<<>>} \cup {<<i>> : i \in Ids} \cup {<<1, 1>>, <<1, 2>>}

\* The id list during whose deletion the store is made to fail.
FaultIdLists == {<<1, 2>>}

Called(op, owner, args, outcome, error, result) ==
   [op |-> op, owner |-> owner, args |-> args, outcome |-> outcome,
    error |-> error, result |-> result]

\* No call is under way: the caller has taken the last result.
Idle == Called("none", <<>>, <<>>, "", NoError, None)

IsIdle == last.op = "none"

\* A call that adds audit rows is made while the log has fewer than MaxAudit.
MayWrite(log) == log = audits \/ Len(audits) < MaxAudit

(***************************************************************************)
(* The service calls.  Calls run one at a time: a call is made when the    *)
(* caller is idle, `last' holds what it returned or raised, and Return     *)
(* hands it to the caller.                                                 *)
(***************************************************************************)

\* record_command(command, actor=actor, source=source) with a store that works.
RecordCommand(owner, command, actor, source) ==
   /\ IsIdle
   /\ \E r \in {RecordCommandResult(owner, command, actor, source)} :
      /\ MayWrite(r.audits)
      /\ items' = r.items
      /\ txns' = r.txns
      /\ audits' = r.audits
      /\ UNCHANGED <<snaps, auth>>
      /\ last' = Called("record_command", owner,
                        [command |-> command, actor |-> actor, source |-> source],
                        r.outcome, r.error, r.value)

\* record_command when the database raises at one of the steps it reaches:
\* up to the commit the except clause rolls the session back, after the
\* commit there is nothing left to roll back.
RecordCommandStorageError(owner, command, actor, source, step) ==
   /\ IsIdle
   /\ \E r \in {RecordCommandResult(owner, command, actor, source)} :
      LET committed == step \in RECORD_STEPS_AFTER_COMMIT
      IN  /\ step \in r.reached
          /\ MayWrite(r.audits)
          /\ items' = IF committed THEN r.items ELSE items
          /\ txns' = IF committed THEN r.txns ELSE txns
          /\ audits' = IF committed THEN r.audits ELSE audits
          /\ UNCHANGED <<snaps, auth>>
          /\ last' = Called("record_command", owner,
                            [command |-> command, actor |-> actor, source |-> source],
                            "StorageError", Error(step), None)

\* list_transactions()
ListTransactionsCall(owner) ==
   /\ IsIdle
   /\ UNCHANGED <<store, auth>>
   /\ last' = Called("list_transactions", owner, <<>>, "ok", NoError,
                     ListTransactions(owner))

\* delete_transactions(txn_ids, actor=actor)
DeleteTransactions(owner, txn_ids, actor) ==
   /\ IsIdle
   /\ \E r \in {DeleteTransactionsResult(owner, txn_ids, actor)} :
      /\ MayWrite(r.audits)
      /\ txns' = r.txns
      /\ audits' = r.audits
      /\ UNCHANGED <<items, snaps, auth>>
      /\ last' = Called("delete_transactions", owner,
                        [txn_ids |-> txn_ids, actor |-> actor], "ok", NoError, r.value)

\* delete_transactions when the database raises: every step is inside the
\* try block and at or before the commit.
DeleteTransactionsStorageError(owner, txn_ids, actor, step) ==
   /\ IsIdle
   /\ \E r \in {DeleteTransactionsResult(owner, txn_ids, actor)} :
      /\ step \in r.reached
      /\ UNCHANGED <<store, auth>>
      /\ last' = Called("delete_transactions", owner,
                        [txn_ids |-> txn_ids, actor |-> actor],
                        "StorageError", Error(step), None)

\* clear_transactions(actor=actor)
ClearTransactions(owner, actor) ==
   /\ IsIdle
   /\ \E r \in {ClearTransactionsResult(owner, actor)} :
      /\ MayWrite(r.audits)
      /\ txns' = r.txns
      /\ audits' = r.audits
      /\ UNCHANGED <<items, snaps, auth>>
      /\ last' = Called("clear_transactions", owner, [actor |-> actor],
                        "ok", NoError, r.value)

\* aggregate_inventory()
AggregateInventoryCall(owner) ==
   /\ IsIdle
   /\ UNCHANGED <<store, auth>>
   /\ last' = Called("aggregate_inventory", owner, <<>>, "ok", NoError,
                     AggregateInventory(owner))

\* create_snapshot(actor=actor, label=label)
CreateSnapshot(owner, actor, label) ==
   /\ IsIdle
   /\ \E r \in {CreateSnapshotResult(owner, actor, label)} :
      /\ MayWrite(r.audits)
      /\ snaps' = r.snaps
      /\ audits' = r.audits
      /\ UNCHANGED <<items, txns, auth>>
      /\ last' = Called("create_snapshot", owner, [actor |-> actor, label |-> label],
                        "ok", NoError, r.value)

\* create_snapshot when the database raises: before the commit nothing is
\* kept, after it the snapshot and its audit row are.
CreateSnapshotStorageError(owner, actor, label, step) ==
   /\ IsIdle
   /\ \E r \in {CreateSnapshotResult(owner, actor, label)} :
      LET committed == step \in SNAPSHOT_STEPS_AFTER_COMMIT
      IN  /\ step \in r.reached
          /\ MayWrite(r.audits)
          /\ snaps' = IF committed THEN r.snaps ELSE snaps
          /\ audits' = IF committed THEN r.audits ELSE audits
          /\ UNCHANGED <<items, txns, auth>>
          /\ last' = Called("create_snapshot", owner,
                            [actor |-> actor, label |-> label],
                            "StorageError", Error(step), None)

\* list_snapshots()
ListSnapshotsCall(owner) ==
   /\ IsIdle
   /\ UNCHANGED <<store, auth>>
   /\ last' = Called("list_snapshots", owner, <<>>, "ok", NoError,
                     ListSnapshots(owner))

\* delete_snapshot(snapshot_id, actor=actor)
DeleteSnapshot(owner, snapshot_id, actor) ==
   /\ IsIdle
   /\ \E r \in {DeleteSnapshotResult(owner, snapshot_id, actor)} :
      /\ MayWrite(r.audits)
      /\ snaps' = r.snaps
      /\ audits' = r.audits
      /\ UNCHANGED <<items, txns, auth>>
      /\ last' = Called("delete_snapshot", owner,
                        [snapshot_id |-> snapshot_id, actor |-> actor],
                        "ok", NoError, r.value)

\* delete_snapshot when the database raises: both steps are inside the try
\* block and at or before the commit.
DeleteSnapshotStorageError(owner, snapshot_id, actor, step) ==
   /\ IsIdle
   /\ \E r \in {DeleteSnapshotResult(owner, snapshot_id, actor)} :
      /\ step \in r.reached
      /\ UNCHANGED <<store, auth>>
      /\ last' = Called("delete_snapshot", owner,
                        [snapshot_id |-> snapshot_id, actor |-> actor],
                        "StorageError", Error(step), None)

\* The caller takes the result of the call.
Return ==
   /\ ~IsIdle
   /\ UNCHANGED <<store, auth>>
   /\ last' = Idle

Init ==
   /\ items = {} /\ txns = {} /\ snaps = {} /\ audits = <<>>
   /\ users = {} /\ otps = {} /\ clock = 0
   /\ last = Idle

Next ==
   \/ \E o \in Services, c \in Commands, a \in Actors, src \in Sources :
         RecordCommand(o, c, a, src)
   \/ \E o \in Services, c \in FaultCommands, a \in Actors, src \in Sources,
         k \in 1..Len(RECORD_STEPS) :
         RecordCommandStorageError(o, c, a, src, RECORD_STEPS[k])
   \/ \E o \in Services : ListTransactionsCall(o)
   \/ \E o \in Services, ids \in IdLists, a \in Actors :
         DeleteTransactions(o, ids, a)
   \/ \E o \in Services, ids \in FaultIdLists, a \in Actors, k \in 1..Len(DELETE_STEPS) :
         DeleteTransactionsStorageError(o, ids, a, DELETE_STEPS[k])
   \/ \E o \in Services, a \in Actors : ClearTransactions(o, a)
   \/ \E o \in Services : AggregateInventoryCall(o)
   \/ \E o \in Services, a \in Actors, l \in Labels : CreateSnapshot(o, a, l)
   \/ \E o \in Services, a \in Actors, l \in FaultLabels, k \in 1..Len(SNAPSHOT_STEPS) :
         CreateSnapshotStorageError(o, a, l, SNAPSHOT_STEPS[k])
   \/ \E o \in Services : ListSnapshotsCall(o)
   \/ \E o \in Services, i \in Ids, a \in Actors : DeleteSnapshot(o, i, a)
   \/ \E o \in Services, i \in FaultIds, a \in Actors, k \in 1..Len(SNAPSHOT_DELETE_STEPS) :
         DeleteSnapshotStorageError(o, i, a, SNAPSHOT_DELETE_STEPS[k])
   \/ Return

Spec == Init /\ [][Next]_vars

\* The calls of record_command alone: a ledger from which nothing is deleted.
NextRecord ==
   \/ \E o \in Services, c \in Commands, a \in Actors, src \in Sources :
         RecordCommand(o, c, a, src)
   \/ \E o \in Services, c \in FaultCommands, a \in Actors, src \in Sources,
         k \in 1..Len(RECORD_STEPS) :
         RecordCommandStorageError(o, c, a, src, RECORD_STEPS[k])
   \/ Return

SpecRecord == Init /\ [][NextRecord]_vars

(***************************************************************************)
(* Concurrent callers of record_command.  Each call runs in a database     *)
(* session of its own (self._session(), line 161) and reaches the database *)
(* in steps: the SELECT and the INSERT of _ensure_item, the SELECT of      *)
(* _available_quantity, and the flush of the transaction with the commit.  *)
(* The database is SQLite (app/db.py): a session reads what is committed   *)
(* and its own writes, one session writes at a time, and a session that    *)
(* has written keeps the others from writing until it commits or rolls     *)
(* back.  The sessions open are kept in `last'.                            *)
(***************************************************************************)

\* The sessions that may be open at once.
SessionIds == {1, 2}

\* The commands of concurrent callers: an add with a unit, an add without,
\* and a removal of more than half of what the first add brings.
ConcurrentCommands ==
   { Cmd(A_add, <<"R","i","c","e">>, 10, <<"K","G","S">>, <<>>),
     Cmd(A_add, <<"r","i","c","e">>, 5, <<>>, <<>>),
     Cmd(A_remove, <<"r","i","c","e">>, 6, <<>>, <<>>) }

\* A session: where its call stands, the service's owner key, the normalized
\* arguments, the item _ensure_item holds (created by this session or not,
\* back-filled by it or not), the quantity _available_quantity returned, and
\* how the call ended.
Session(phase, owner, n, item, created, dirty, available, outcome, result) ==
   [phase |-> phase, owner |-> owner, n |-> n, item |-> item, created |-> created,
    dirty |-> dirty, available |-> available, outcome |-> outcome,
    result |-> result]

\* No call runs in the session.
Free == Session("free", <<>>, <<>>, None, FALSE, FALSE, 0, "", None)

\* The sessions a value of `last' holds.
SessionsOf(l) == IF l.op = "sessions" THEN l.args ELSE [s \in SessionIds |-> Free]

\* The sessions open now.
Sessions == SessionsOf(last)

\* `last' with session s replaced; the caller is idle when every session is
\* free.
WithSession(s, rec) ==
   IF \A t \in SessionIds \ {s} : Sessions[t].phase = "free" /\ rec.phase = "free"
      THEN Idle
      ELSE Called("sessions", <<>>, [Sessions EXCEPT ![s] = rec], "", NoError, None)

\* The session holds the write lock: it has inserted an Item that it has
\* neither committed nor rolled back.
HoldsLock(rec) == rec.created /\ rec.phase \in {"ensured", "checked"}

\* Another session than s holds the write lock.
LockedAgainst(s) == \E t \in SessionIds \ {s} : HoldsLock(Sessions[t])

\* A call ended: the phase, the outcome and the value returned.
Ended(rec, outcome, result) ==
   [rec EXCEPT !.phase = "done", !.outcome = outcome, !.result = result]

\* Table items as the session's commit leaves it: its new Item inserted, or
\* the unit it back-filled written to the Item's row.
ItemsWith(rec) ==
   IF rec.created THEN items \cup {rec.item}
   ELSE IF rec.dirty
      THEN {IF i.id = rec.item.id THEN [i EXCEPT !.unit = rec.item.unit] ELSE i :
               i \in items}
   ELSE items

\* Lines 175-208 in a session whose stock check is passed, with the stock
\* check made again on what is committed now.
SessionWriteRechecked(rec) ==
   RecordChecked(rec.owner, rec.n,
                 Ensured(FALSE, rec.created, rec.item, ItemsWith(rec)),
                 AvailableQuantity(rec.owner, rec.item, rec.n.location_norm))

\* Lines 175-208 in a session whose stock check is passed: the transaction
\* and its audit row are flushed and committed.
SessionWrite(rec) ==
   Recorded(rec.owner, rec.n,
            Ensured(FALSE, rec.created, rec.item, ItemsWith(rec)),
            NewTxn(rec.owner, rec.n, rec.item))

\* record_command is called: the arguments pass lines 141-159 and a session
\* is opened (a command that fails validation reaches no session).
Begin(s, owner, command, actor, source) ==
   /\ last.op \in {"none", "sessions"}
   /\ Sessions[s].phase = "free"
   /\ Len(audits) + Cardinality({t \in SessionIds : Sessions[t].phase # "free"})
         < MaxAudit
   /\ \E n \in {Normalized(command, actor, source)} :
         /\ ~n.q.raises /\ ~n.q.nan /\ n.q.val > 0
         /\ n.action_raw \in {A_add, A_remove}
         /\ Lower(CleanItemOf(n.item_raw)) # <<>>
         /\ last' = WithSession(s, Session("begun", owner, n, None, FALSE, FALSE,
                                           0, "", None))
   /\ UNCHANGED <<store, auth>>

\* The SELECT of _ensure_item (lines 73-82): the Item found is held, with its
\* unit back-filled in the session; none found, the session goes on to
\* insert one.
SelectItemStep(s) ==
   /\ last.op = "sessions"
   /\ Sessions[s].phase = "begun"
   /\ \E rec \in {Sessions[s]} :
      \E found \in {SelectItem(rec.owner, Lower(CleanItemOf(rec.n.item_raw)))} :
         last' = WithSession(s,
                    IF found = {} THEN [rec EXCEPT !.phase = "insert"]
                    ELSE [rec EXCEPT !.phase = "ensured",
                                     !.item = BackFilled(FirstById(found), rec.n.unit_norm),
                                     !.dirty = BackFilled(FirstById(found), rec.n.unit_norm)
                                                  # FirstById(found)])
   /\ UNCHANGED <<store, auth>>

\* The INSERT of _ensure_item (lines 83-91), once no other session holds the
\* write lock.  Where the unique constraint uq_items_owner_name is enforced,
\* an Item of this owner and normalized name committed since the SELECT
\* makes the flush raise IntegrityError, and the call rolls back and raises.
FlushItemStep(s, enforced) ==
   /\ last.op = "sessions"
   /\ Sessions[s].phase = "insert"
   /\ ~LockedAgainst(s)
   /\ \E rec \in {Sessions[s]} :
         last' = WithSession(s,
                    IF enforced /\ SelectItem(rec.owner,
                                      Lower(CleanItemOf(rec.n.item_raw))) # {}
                       THEN Ended(rec, "IntegrityError", None)
                       ELSE [rec EXCEPT !.phase = "ensured",
                                        !.created = TRUE,
                                        !.item = NewItem(rec.owner, rec.n.item_raw,
                                                    Lower(CleanItemOf(rec.n.item_raw)),
                                                    rec.n.unit_norm)])
   /\ UNCHANGED <<store, auth>>

\* The stock check of a removal (lines 168-173): _available_quantity reads
\* the transactions committed by now; a removal of more raises InventoryError
\* and the session is rolled back.
CheckStep(s) ==
   /\ last.op = "sessions"
   /\ Sessions[s].phase = "ensured"
   /\ Kind(Sessions[s].n) = "OUT"
   /\ \E rec \in {Sessions[s]} :
      \E available \in {AvailableQuantity(rec.owner, rec.item, rec.n.location_norm)} :
         last' = WithSession(s,
                    IF rec.n.q.val > available + TOL
                       THEN Ended([rec EXCEPT !.available = available],
                                  "InventoryError", None)
                       ELSE [rec EXCEPT !.phase = "checked", !.available = available])
   /\ UNCHANGED <<store, auth>>

\* Lines 175-208: the transaction and the audit row are flushed, once no
\* other session holds the write lock, and committed with the session's
\* Item; the view is returned.
CommitStep(s) ==
   /\ last.op = "sessions"
   /\ \/ Sessions[s].phase = "checked"
      \/ Sessions[s].phase = "ensured" /\ Kind(Sessions[s].n) = "IN"
   /\ ~LockedAgainst(s)
   /\ \E r \in {SessionWrite(Sessions[s])} :
         /\ items' = r.items
         /\ txns' = r.txns
         /\ audits' = r.audits
         /\ UNCHANGED <<snaps, auth>>
         /\ last' = WithSession(s, Ended(Sessions[s], r.outcome, r.value))

\* The caller takes what the call returned or raised; the session is closed.
Close(s) ==
   /\ last.op = "sessions"
   /\ Sessions[s].phase = "done"
   /\ UNCHANGED <<store, auth>>
   /\ last' = WithSession(s, Free)

\* Concurrent record_command calls on a database created from app/models.py.
NextConcurrent ==
   \/ \E s \in SessionIds, o \in Services, c \in ConcurrentCommands,
         a \in Actors, src \in Sources : Begin(s, o, c, a, src)
   \/ \E s \in SessionIds : SelectItemStep(s)
   \/ \E s \in SessionIds : FlushItemStep(s, TRUE)
   \/ \E s \in SessionIds : CheckStep(s)
   \/ \E s \in SessionIds : CommitStep(s)
   \/ \E s \in SessionIds : Close(s)

SpecConcurrent == Init /\ [][NextConcurrent]_vars

\* Concurrent record_command calls on a database file that is older than
\* the owner_key and normalized_name columns of table items: run_migrations
\* (app/db_migrations.py, lines 51-74) adds the columns to the table but not
\* the unique constraint uq_items_owner_name, so the INSERT of _ensure_item
\* is never refused.
NextLegacy ==
   \/ \E s \in SessionIds, o \in Services, c \in ConcurrentCommands,
         a \in Actors, src \in Sources : Begin(s, o, c, a, src)
   \/ \E s \in SessionIds : SelectItemStep(s)
   \/ \E s \in SessionIds : FlushItemStep(s, FALSE)
   \/ \E s \in SessionIds : CheckStep(s)
   \/ \E s \in SessionIds : CommitStep(s)
   \/ \E s \in SessionIds : Close(s)

SpecLegacy == Init /\ [][NextLegacy]_vars

(***************************************************************************)
(* Construction of services: InventoryService.__init__                     *)
(***************************************************************************)

\* The owner keys services are constructed with: None, empty and blank
\* keys, and keys that differ in letter case and in the blanks around them.
OwnerKeyInputs ==
   {None, <<>>, <<" "," ">>, <<"A","n","n"," ">>, <<" ","A","N","N">>, <<"a","n","n">>, <<"b","o","b">>, <<"B","o","b"," ">>}

\* InventoryService.__init__ (lines 58-61): whether it raises ValueError,
\* and self._owner_key.
NewService(owner_key) ==
   [raises |-> CleanOwner(owner_key) = <<>>, owner |-> CleanOwner(owner_key)]

\* InventoryService(owner_key)
Construct(owner_key) ==
   /\ IsIdle
   /\ UNCHANGED <<store, auth>>
   /\ last' = Called("__init__", NewService(owner_key).owner,
                     [owner_key |-> owner_key],
                     IF NewService(owner_key).raises THEN "ValueError" ELSE "ok",
                     NoError, None)

\* Services are constructed with any of the keys; those constructed with
\* the keys of RawOwnerKeys record commands, all of them list transactions.
NextOwner ==
   \/ \E k \in OwnerKeyInputs : Construct(k)
   \/ \E k \in RawOwnerKeys, c \in Commands, a \in Actors, src \in Sources :
         /\ ~NewService(k).raises
         /\ RecordCommand(NewService(k).owner, c, a, src)
   \/ \E k \in OwnerKeyInputs :
         /\ ~NewService(k).raises
         /\ ListTransactionsCall(NewService(k).owner)
   \/ Return

SpecOwner == Init /\ [][NextOwner]_vars

(***************************************************************************)
(* Callers of the unit normalizer                                          *)
(***************************************************************************)

\* str.upper() on one character.
UpperChar(c) ==
   IF c \in DOMAIN OrdTable /\ Ord(c) >= Ord("a") /\ Ord(c) <= Ord("z")
      THEN CHARS[Ord(c) - (Ord("a") - Ord("A"))]
      ELSE c

\* str.upper()
Upper(s) == [i \in 1..Len(s) |-> UpperChar(s[i])]

\* str.capitalize() of a lowercase string.
Capitalize(s) == [i \in 1..Len(s) |-> IF i = 1 THEN UpperChar(s[i]) ELSE s[i]]

\* The letter cases an alias is written in.
Cased(s, case) ==
   IF case = "upper" THEN Upper(s)
   ELSE IF case = "capitalized" THEN Capitalize(s)
   ELSE s

CASES == {"lower", "upper", "capitalized"}

\* The characters _normalize_unit removes from a token.
UNIT_PUNCTUATION == {".", " ", "-"}

\* s with character c put in after its first p characters.
InsertAt(s, p, c) == SubSeq(s, 1, p) \o <<c>> \o SubSeq(s, p + 1, Len(s))

\* Unit tokens that are no spelling of an alias: empty and blank ones,
\* plurals and singulars of unknown units, tokens made of a plural ending
\* only, and plurals of aliases the table does not list.
UnitTokens ==
   { <<>>, <<" "," ">>, <<" ","."," ">>, <<"c","a","n","s">>, <<"C","a","n","s",".">>, <<"c","a","n">>, <<"t","i","n">>, <<"j","a","r">>,
     <<"g","l","a","s","s","e","s">>, <<"g","l","a","s","s">>, <<"g","l","a","s">>, <<"b","e","r","r","i","e","s">>, <<"b","e","r","r","y">>, <<"x","s","e","s">>,
     <<"s">>, <<"e","s">>, <<"i","e","s">>, <<"b","o","x","s">>, <<"k","g","e","s">>, <<"d","z","s">>, <<"b","u","s">> }

\* _normalize_unit is called with a spelling of an alias of the table: the
\* alias in one of the letter cases, with one character of punctuation put
\* in at position p.
NormalizeAlias(i, alias, case, p, c) ==
   /\ IsIdle
   /\ UNCHANGED <<store, auth>>
   /\ last' = Called("_normalize_unit", <<>>,
                     [unit |-> InsertAt(Cased(alias, case), p, c),
                      alias |-> alias, tag |-> UNIT_MAP[i].std],
                     "ok", NoError,
                     NormalizeUnit(InsertAt(Cased(alias, case), p, c)))

\* _normalize_unit is called with another token.
NormalizeToken(unit) ==
   /\ IsIdle
   /\ UNCHANGED <<store, auth>>
   /\ last' = Called("_normalize_unit", <<>>,
                     [unit |-> unit, alias |-> None, tag |-> None],
                     "ok", NoError, NormalizeUnit(unit))

\* _normalize_unit is called with what it returned, as aggregate_inventory
\* does with the unit record_command stored.
NormalizeAgain ==
   /\ last.op = "_normalize_unit"
   /\ last.result # last.args.unit
   /\ UNCHANGED <<store, auth>>
   /\ last' = Called("_normalize_unit", <<>>,
                     [unit |-> last.result, alias |-> None, tag |-> None],
                     "ok", NoError, NormalizeUnit(last.result))

NextUnit ==
   \/ \E i \in 1..Len(UNIT_MAP) :
         \E alias \in UNIT_MAP[i].aliases, case \in CASES, c \in UNIT_PUNCTUATION :
            \E p \in 0..Len(alias) : NormalizeAlias(i, alias, case, p, c)
   \/ \E unit \in UnitTokens : NormalizeToken(unit)
   \/ NormalizeAgain
   \/ Return

SpecUnit == Init /\ [][NextUnit]_vars

(***************************************************************************)
(* app/inventory_utils.py: parse_inventory_command.  The three regular     *)
(* expressions are computed by position: every operator below returns what *)
(* re.match / re.search returns for its pattern, with the greedy and lazy  *)
(* quantifiers resolved in the order the matcher tries them.  The only     *)
(* whitespace of the model is the blank, so a line break never meets '.'   *)
(* or '$'.                                                                 *)
(***************************************************************************)

\* [a-zA-Z]
IsLetter(c) ==
   /\ c \in DOMAIN OrdTable
   /\ \/ IsUpper(c)
      \/ Ord(c) >= Ord("a") /\ Ord(c) <= Ord("z")

\* Whether the character class \s ("space"), \d ("digit") or [a-zA-Z]
\* ("letter") of the patterns holds c.
InClass(c, class) ==
   CASE class = "space" -> IsSpace(c)
     [] class = "digit" -> IsDigit(c)
     [] class = "letter" -> IsLetter(c)

\* The position just after the longest run of characters of the class that
\* starts at position i: a greedy \s*, \d+ or [a-zA-Z]+.
RunEnd(s, i, class) ==
   CHOOSE j \in i..(Len(s) + 1) :
      /\ \A k \in i..(j - 1) : InClass(s[k], class)
      /\ j = Len(s) + 1 \/ ~InClass(s[j], class)

\* The position just after \d+(?:[\.,]\d+)? matched at position i; i itself
\* when no digit stands there.
NumberEnd(s, i) ==
   LET d == RunEnd(s, i, "digit")
   IN  IF /\ d > i
          /\ d + 1 <= Len(s)
          /\ s[d] \in {".", ","}
          /\ IsDigit(s[d + 1])
          THEN RunEnd(s, d + 1, "digit")
       ELSE d

\* s.find(sub) + 1: the first position where sub occurs in s, 0 when none.
Find(s, sub) ==
   LET hits == {i \in 1..(Len(s) - Len(sub) + 1) :
                   SubSeq(s, i, i + Len(sub) - 1) = sub}
   IN  IF hits = {} THEN 0 ELSE CHOOSE i \in hits : \A j \in hits : i <= j

\* The separators of _split_location's first loop, in its order, and the
\* prefixes of its second.
LOCATION_SEPARATORS == << <<" ","t","o"," ">>, <<" ","f","r","o","m"," ">>, <<" ","i","n"," ">> >>
LOCATION_PREFIXES == << <<"t","o"," ">>, <<"f","r","o","m"," ">>, <<"i","n"," ">> >>

\* _split_location cutting at the separator that stands first in the
\* phrase, not at the first of the tuple that the phrase holds.
SplitLocationEarliest(phrase) ==
   LET text  == Strip(phrase)
       lower == Lower(text)
       seps  == {i \in 1..Len(LOCATION_SEPARATORS) :
                    Find(lower, LOCATION_SEPARATORS[i]) # 0}
       sep   == LOCATION_SEPARATORS[
                   CHOOSE i \in seps :
                      \A j \in seps : Find(lower, LOCATION_SEPARATORS[i])
                                         <= Find(lower, LOCATION_SEPARATORS[j])]
       pres  == {i \in 1..Len(LOCATION_PREFIXES) :
                    StartsWith(lower, LOCATION_PREFIXES[i])}
       pre   == LOCATION_PREFIXES[CHOOSE i \in pres : \A j \in pres : i <= j]
   IN  IF seps # {}
          THEN [item |-> Strip(SubSeq(text, 1, Find(lower, sep) - 1)),
                location |-> Strip(DropFirst(text, Find(lower, sep) + Len(sep) - 1))]
       ELSE IF pres # {}
          THEN [item |-> <<>>, location |-> Strip(DropFirst(text, Len(pre)))]
       ELSE [item |-> text, location |-> <<>>]

\* _split_location without its second loop (a phrase that starts with the
\* separator word).
SplitLocationInside(phrase) ==
   LET text  == Strip(phrase)
       lower == Lower(text)
       seps  == {i \in 1..Len(LOCATION_SEPARATORS) :
                    Find(lower, LOCATION_SEPARATORS[i]) # 0}
       sep   == LOCATION_SEPARATORS[CHOOSE i \in seps : \A j \in seps : i <= j]
   IN  IF seps # {}
          THEN [item |-> Strip(SubSeq(text, 1, Find(lower, sep) - 1)),
                location |-> Strip(DropFirst(text, Find(lower, sep) + Len(sep) - 1))]
       ELSE [item |-> text, location |-> <<>>]

\* _split_location(phrase): the pair (item, location).
SplitLocation(phrase) ==
   LET text  == Strip(phrase)
       lower == Lower(text)
       seps  == {i \in 1..Len(LOCATION_SEPARATORS) :
                    Find(lower, LOCATION_SEPARATORS[i]) # 0}
       sep   == LOCATION_SEPARATORS[CHOOSE i \in seps : \A j \in seps : i <= j]
       pres  == {i \in 1..Len(LOCATION_PREFIXES) :
                    StartsWith(lower, LOCATION_PREFIXES[i])}
       pre   == LOCATION_PREFIXES[CHOOSE i \in pres : \A j \in pres : i <= j]
   IN  IF seps # {}
          THEN [item |-> Strip(SubSeq(text, 1, Find(lower, sep) - 1)),
                location |-> Strip(DropFirst(text, Find(lower, sep) + Len(sep) - 1))]
       ELSE IF pres # {}
          THEN [item |-> <<>>, location |-> Strip(DropFirst(text, Len(pre)))]
       ELSE [item |-> text, location |-> <<>>]

\* What a pattern captured: the item text, the number text, the unit letters
\* (empty for a group that took no part, which the code reads with "or ''")
\* and the tail after them.
NoMatch == [matched |-> FALSE, item |-> <<>>, number |-> <<>>, unit |-> <<>>, tail |-> <<>>]

Match(item, number, unit, tail) ==
   [matched |-> TRUE, item |-> item, number |-> number, unit |-> unit, tail |-> tail]

\* Pattern A, ^\s*(\d+(?:[\.,]\d+)?)\s*([a-zA-Z]+)?(?:\s+of)?\s+(.+)$ on a
\* text that does not end in a blank (rest never does: it is cut from a
\* stripped text).  The number is followed by blanks up to e and letters up
\* to f.  Letters followed by a blank are the unit, and an "of" after them
\* is dropped when a blank follows it; otherwise the matcher gives back one
\* blank and everything from e on is the item, without a unit.
PatternA(r) ==
   LET i0 == RunEnd(r, 1, "space")
       q  == NumberEnd(r, i0)
       e  == RunEnd(r, q, "space")
       f  == RunEnd(r, e, "letter")
       g  == RunEnd(r, f, "space")
       h  == RunEnd(r, g + 2, "space")
   IN  IF q = i0 THEN NoMatch
       ELSE IF f > e /\ f <= Len(r) /\ IsSpace(r[f])
          THEN IF /\ g + 2 <= Len(r)
                  /\ SubSeq(r, g, g + 1) = <<"o","f">>
                  /\ IsSpace(r[g + 2])
                  THEN Match(SubSeq(r, h, Len(r)), SubSeq(r, i0, q - 1),
                             SubSeq(r, e, f - 1), <<>>)
               ELSE Match(SubSeq(r, g, Len(r)), SubSeq(r, i0, q - 1),
                          SubSeq(r, e, f - 1), <<>>)
       ELSE IF e > q /\ e <= Len(r)
          THEN Match(SubSeq(r, e, Len(r)), SubSeq(r, i0, q - 1), <<>>, <<>>)
       ELSE NoMatch

\* The positions where the lazy item of pattern B may stop when it starts at
\* s0: a blank whose run of blanks ends at a digit.
ItemStops(r, s0) ==
   {p \in (s0 + 1)..Len(r) :
       /\ IsSpace(r[p])
       /\ RunEnd(r, p, "space") <= Len(r)
       /\ IsDigit(r[RunEnd(r, p, "space")])}

\* Pattern B, ^\s*(.+?)\s+(\d+(?:[\.,]\d+)?)\s*([a-zA-Z]+)?(.*)$: the
\* leading \s* takes as many blanks as leave a match, the item is the
\* shortest text that a blank and a number follow.
PatternB(r) ==
   LET i0     == RunEnd(r, 1, "space")
       starts == {s0 \in 1..i0 : ItemStops(r, s0) # {}}
       s0     == CHOOSE s \in starts : \A t \in starts : t <= s
       p      == CHOOSE x \in ItemStops(r, s0) : \A y \in ItemStops(r, s0) : x <= y
       p2     == RunEnd(r, p, "space")
       q      == NumberEnd(r, p2)
       e      == RunEnd(r, q, "space")
       f      == RunEnd(r, e, "letter")
   IN  IF starts = {} THEN NoMatch
       ELSE Match(SubSeq(r, s0, p - 1), SubSeq(r, p2, q - 1),
                  SubSeq(r, e, f - 1), SubSeq(r, f, Len(r)))

\* The fallback search (\d+(?:[\.,]\d+)?)\s*([a-zA-Z]+)? at the first digit
\* of the text; tail is rest.split(m3.group(0), 1)[1], the text after the
\* match (the match begins at the first digit, so no earlier occurrence of
\* its text exists).
PatternSearch(r) ==
   LET digits == {i \in 1..Len(r) : IsDigit(r[i])}
       d0     == CHOOSE i \in digits : \A j \in digits : i <= j
       q      == NumberEnd(r, d0)
       e      == RunEnd(r, q, "space")
       f      == RunEnd(r, e, "letter")
   IN  IF digits = {} THEN NoMatch
       ELSE Match(<<>>, SubSeq(r, d0, q - 1), SubSeq(r, e, f - 1),
                  SubSeq(r, f, Len(r)))

\* A float read from the text of a number: the whole part and the digits of
\* the fraction without its trailing zeros, so that equal floats are equal.
RECURSIVE DropZeros(_)
DropZeros(s) ==
   IF s # <<>> /\ s[Len(s)] = "0" THEN DropZeros(DropLast(s, 1)) ELSE s

\* float(text.replace(',', '.')) for a text that \d+(?:[\.,]\d+)? matched.
ParseFloat(text) ==
   LET d == RunEnd(text, 1, "digit")
   IN  [kind |-> "float", whole |-> ParseNat(SubSeq(text, 1, d - 1)),
        frac |-> DropZeros(SubSeq(text, d + 1, Len(text)))]

\* The quantity '' of a command without a number.
EmptyQuantity == [kind |-> "str", whole |-> 0, frac |-> <<>>]

\* ("add",) + REMOVE_WORDS
ACTION_WORDS ==
   << <<"a","d","d">>, <<"r","e","m","o","v","e">>, <<"d","e","d","u","c","t">>, <<"s","u","b","t","r","a","c","t">>, <<"r","e","d","u","c","e">>, <<"d","e","l","e","t","e">> >>

\* The test of the keyword loop with the keyword searched anywhere in the
\* text.
HasKeywordInside(low, kw) == Find(low, kw) # 0

\* low.startswith(kw + ' ') or (' ' + kw + ' ') in (' ' + low + ' ')
HasKeyword(low, kw) ==
   \/ StartsWith(low, kw \o <<" ">>)
   \/ Find(<<" ">> \o low \o <<" ">>, <<" ">> \o kw \o <<" ">>) # 0

\* The action the keyword loop sets: 'add' for the first word of
\* ACTION_WORDS, 'remove' for the others, None when the loop ends unset.
ActionOf(low) ==
   LET hits == {i \in 1..Len(ACTION_WORDS) : HasKeyword(low, ACTION_WORDS[i])}
   IN  IF hits = {} THEN None
       ELSE IF 1 \in hits THEN A_add
       ELSE A_remove

\* rest: low without the action word it starts with (the if/elif chain).
RestOf(low) ==
   LET hits == {i \in 1..Len(ACTION_WORDS) :
                   StartsWith(low, ACTION_WORDS[i] \o <<" ">>)}
   IN  IF hits = {} THEN low
       ELSE DropFirst(low, Len(ACTION_WORDS[CHOOSE i \in hits : TRUE]) + 1)

\* qty, unit, item and loc as a branch of the extraction sets them from
\* its match m (NoMatch in the branch without a number, which leaves qty and
\* unit as they were initialized), its item phrase and its _split_location.
Fields(m, item, split) ==
   [quantity |-> IF m.matched THEN ParseFloat(m.number) ELSE EmptyQuantity,
    unit |-> IF m.matched THEN NormalizeUnit(m.unit) ELSE <<>>,
    item |-> CleanItem(item), location |-> split.location]

\* A branch whose item phrase is the first half of its _split_location.
FieldsOfSplit(m, split) == Fields(m, split.item, split)

\* No quantity found: all of rest is the item phrase (lines 157-160).
NoQuantityBranch(rest) == FieldsOfSplit(NoMatch, SplitLocation(rest))

\* The fallback (lines 146-156), m3 being its re.search.
FallbackBranch(rest, m3) ==
   IF m3.matched THEN FieldsOfSplit(m3, SplitLocation(Strip(m3.tail)))
   ELSE NoQuantityBranch(rest)

\* Pattern B (lines 132-144), m2 being its re.match: the item is group 1,
\* the location comes from the tail.
PatternBBranch(rest, m2) ==
   IF m2.matched THEN Fields(m2, m2.item, SplitLocation(m2.tail))
   ELSE FallbackBranch(rest, PatternSearch(rest))

\* Pattern A (lines 116-130), m being its re.match.
PatternABranch(rest, m) ==
   IF m.matched THEN FieldsOfSplit(m, SplitLocation(m.item))
   ELSE PatternBBranch(rest, PatternB(rest))

\* qty, unit, item and loc after the extraction.
Extracted(rest) == PatternABranch(rest, PatternA(rest))

\* The return value None of parse_inventory_command, in the shape of the
\* dict it returns otherwise (whose action is never None).
NoCommand ==
   [action |-> None, item |-> <<>>, quantity |-> EmptyQuantity, unit |-> <<>>,
    location |-> <<>>, note |-> <<>>]

\* The end of parse_inventory_command (lines 162-172): None without an
\* item, else the dict, here without its timestamp.
Command(action, x) ==
   IF x.item = <<>> THEN NoCommand
   ELSE [action |-> action, item |-> x.item, quantity |-> x.quantity,
         unit |-> x.unit, location |-> x.location, note |-> <<>>]

\* parse_inventory_command from low on (lines 90-172).
ParseLow(low) ==
   IF low = <<>> THEN NoCommand
   ELSE IF ActionOf(low) = None THEN NoCommand
   ELSE Command(ActionOf(low), Extracted(RestOf(low)))

\* parse_inventory_command(text)
ParseInventoryCommand(text) == ParseLow(Lower(Strip(OrEmpty(text))))

(***************************************************************************)
(* Callers of the parser: a text of up to three words with one blank       *)
(* between them (an empty word leaves two blanks in a row, or a blank at   *)
(* an end), the empty text or None.                                        *)
(***************************************************************************)

ParseWords ==
   { <<>>, <<"a","d","d">>, <<"R","e","m","o","v","e">>, <<"d","e","d","u","c","t">>, <<"s","u","b","t","r","a","c","t">>, <<"r","e","d","u","c","e">>,
     <<"d","e","l","e","t","e">>, <<"a","d","d","r","e","s","s">>, <<"5">>, <<"2",",","5","0">>, <<"5","k","g">>, <<"k","g","s">>, <<"o","f">>,
     <<"t","h","e">>, <<"R","i","c","e">>, <<"i","n">>, <<"f","r","o","m">>, <<"p","a","n","t","r","y">>, <<"h","e","l","l","o">>, <<"w","o","r","l","d">> }

\* parse_inventory_command(text) is called.
ParseCall(text) ==
   /\ IsIdle
   /\ UNCHANGED <<store, auth>>
   /\ last' = Called("parse_inventory_command", <<>>, [text |-> text],
                     "ok", NoError, ParseInventoryCommand(text))

\* The numbers written in the two forms: their text and the float it reads
\* as (whole part, digits of the fraction).
FormNumbers ==
   { [text |-> <<"5">>, whole |-> 5, frac |-> <<>>],
     [text |-> <<"2",",","5","0">>, whole |-> 2, frac |-> <<"5">>],
     [text |-> <<"0",".","2","5">>, whole |-> 0, frac |-> <<"2","5">>] }

\* The action words written in the two forms.
FormActions ==
   {ACTION_WORDS[i] : i \in 1..Len(ACTION_WORDS)} \cup {<<"A","d","d">>}

FormItems == { <<"o","n","i","o","n","s">>, <<"R","i","c","e">>, <<"g","r","e","e","n"," ","t","e","a">> }

FormLocations == { <<"p","a","n","t","r","y">>, <<"T","o","p"," ","s","h","e","l","f">> }

\* '<action> <number> <unit> of <item> in <location>'
QuantityFirst(action, number, unit, item, location) ==
   action \o <<" ">> \o number \o <<" ">> \o unit \o <<" ","o","f"," ">> \o item
      \o <<" ","i","n"," ">> \o location

\* '<action> <item> <number> <unit> from <location>'
ItemFirst(action, number, unit, item, location) ==
   action \o <<" ">> \o item \o <<" ">> \o number \o <<" ">> \o unit
      \o <<" ","f","r","o","m"," ">> \o location

\* parse_inventory_command is called with a text of one of the two forms,
\* whose unit is an alias of the table.
ParseForm(first, action, number, i, alias, item, location) ==
   /\ IsIdle
   /\ UNCHANGED <<store, auth>>
   /\ last' = Called("parse_inventory_command", <<>>,
                     [text |-> IF first
                                  THEN QuantityFirst(action, number.text, alias, item, location)
                                  ELSE ItemFirst(action, number.text, alias, item, location),
                      form |-> IF first THEN "quantity-first" ELSE "item-first",
                      action |-> action, number |-> number, tag |-> UNIT_MAP[i].std,
                      item |-> item, location |-> location],
                     "ok", NoError,
                     ParseInventoryCommand(
                        IF first
                           THEN QuantityFirst(action, number.text, alias, item, location)
                           ELSE ItemFirst(action, number.text, alias, item, location)))

\* Texts that reach each extraction strategy (Pattern A, Pattern B, the
\* fallback), and the words of the phrase that follows quantity and unit.
StrategyStarts == { <<"a","d","d"," ","5"," ","k","g">>, <<"a","d","d"," ","r","i","c","e"," ","5"," ","k","g">>, <<"a","d","d"," ","x","5","k","g">> }

PhraseWords == { <<>>, <<"r","i","c","e">>, <<"b","o","x">>, <<"t","o">>, <<"f","r","o","m">>, <<"i","n">> }

NextParse ==
   \/ /\ IsIdle
      /\ \E w1 \in ParseWords, w2 \in ParseWords, w3 \in ParseWords :
            ParseCall(w1 \o <<" ">> \o w2 \o <<" ">> \o w3)
   \/ \E text \in {None, <<>>} : ParseCall(text)
   \/ /\ IsIdle
      /\ \E start \in StrategyStarts, w1 \in PhraseWords, w2 \in PhraseWords,
            w3 \in PhraseWords, w4 \in PhraseWords :
            ParseCall(start \o <<" ">> \o w1 \o <<" ">> \o w2 \o <<" ">> \o w3
                         \o <<" ">> \o w4)
   \/ /\ IsIdle
      /\ \E first \in BOOLEAN, action \in FormActions, number \in FormNumbers,
            item \in FormItems, location \in FormLocations :
            \E i \in 1..Len(UNIT_MAP) : \E alias \in UNIT_MAP[i].aliases :
               ParseForm(first, action, number, i, alias, item, location)
   \/ Return

SpecParse == Init /\ [][NextParse]_vars

(***************************************************************************)
(* Callers of the item cleaner: the parser with an item phrase, the ledger *)
(* and the aggregate with an item name; a phrase of up to three words.     *)
(***************************************************************************)

ItemWords == { <<>>, <<"o","f">>, <<"T","h","e">>, <<"a">>, <<"A","N">>, <<"r","i","c","e">>, <<"A","p","p","l","e">> }

\* _clean_item(item) is called.
CleanItemCall(item) ==
   /\ UNCHANGED <<store, auth>>
   /\ last' = Called("_clean_item", <<>>, [item |-> item], "ok", NoError,
                     CleanItem(item))

NextClean ==
   \/ /\ IsIdle
      /\ \E w1 \in ItemWords, w2 \in ItemWords, w3 \in ItemWords :
            CleanItemCall(w1 \o <<" ">> \o w2 \o <<" ">> \o w3)
   \/ Return

SpecClean == Init /\ [][NextClean]_vars

(***************************************************************************)
(* app/auth_service.py over the tables of app/auth_models.py.  A password  *)
(* hash is modelled by the password it was made from: verify_password      *)
(* accepts exactly that password.                                          *)
(***************************************************************************)

\* EMAIL_RE.match(e): no blank, one at sign that is
\* not the first character, and after it a '.' with a character on each
\* side.
AtSign == "@"

EmailMatches(e) ==
   LET at == Find(e, <<AtSign>>)
   IN  /\ \A i \in 1..Len(e) : ~IsSpace(e[i])
       /\ at > 1
       /\ \A i \in (at + 1)..Len(e) : e[i] # AtSign
       /\ \E j \in (at + 2)..(Len(e) - 1) : e[j] = "."

\* PWD_RE.match(p), ^(?=.*[A-Z])(?=.*[^A-Za-z0-9]).{8,}$
PasswordMatches(p) ==
   /\ Len(p) >= 8
   /\ \E i \in 1..Len(p) : IsLetter(p[i]) /\ IsUpper(p[i])
   /\ \E i \in 1..Len(p) : ~IsLetter(p[i]) /\ ~IsDigit(p[i])

\* normalize_phone(cc, num)
NormalizePhone(cc, num) ==
   [cc |-> IF StartsWith(Strip(cc), <<"+">>) THEN Strip(cc) ELSE <<"+">> \o Strip(cc),
    digits |-> SelectSeq(num, IsDigit),
    e164 |-> (IF StartsWith(Strip(cc), <<"+">>) THEN Strip(cc) ELSE <<"+">> \o Strip(cc))
                \o SelectSeq(num, IsDigit)]

\* The duplicate checks of create_user with the check of the email left out.
DuplicateByPhone(table, email_n, e164) ==
   IF \E u \in table : u.phone_e164 = e164
      THEN "Account already exists for this phone number."
   ELSE ""

\* The two SELECTs of create_user: the message of the first that finds a
\* row, "" when neither does.
Duplicate(table, email_n, e164) ==
   IF \E u \in table : u.phone_e164 = e164
      THEN "Account already exists for this phone number."
   ELSE IF \E u \in table : u.email = email_n
      THEN "Account already exists for this email."
   ELSE ""

\* AuthUser(...) as create_user builds it.
NewUser(table, first, surname, business, email_n, phone, pwd) ==
   [id |-> NextId(table), first_name |-> Strip(first), last_name |-> Strip(surname),
    business_name |-> Strip(business), email |-> email_n, phone_cc |-> phone.cc,
    phone_num |-> phone.digits, phone_e164 |-> phone.e164, pwd_hash |-> pwd,
    is_verified |-> TRUE]

\* What create_user returns.
Answer(ok, message) == [ok |-> ok, message |-> message]

\* create_user from the normalized email and phone on: the table after the
\* call and the pair returned.
CreateNormalized(table, first, surname, business, email_n, phone, pwd) ==
   IF ~EmailMatches(email_n)
      THEN [users |-> table, value |-> Answer(FALSE, "Invalid email format.")]
   ELSE IF ~PasswordMatches(OrEmpty(pwd))
      THEN [users |-> table,
            value |-> Answer(FALSE, "Password must be at least 8 characters, include 1 uppercase and 1 special character.")]
   ELSE IF phone.digits = <<>>
      THEN [users |-> table, value |-> Answer(FALSE, "Phone number is required.")]
   ELSE IF Duplicate(table, email_n, phone.e164) # ""
      THEN [users |-> table,
            value |-> Answer(FALSE, Duplicate(table, email_n, phone.e164))]
   ELSE [users |-> table \cup
                      {NewUser(table, first, surname, business, email_n, phone, pwd)},
         value |-> Answer(TRUE, "Account created.")]

\* create_user(first, last, business, email, cc, phone, pwd)
CreateUserResult(table, first, surname, business, email, cc, phone, pwd) ==
   CreateNormalized(table, first, surname, business, Lower(Strip(OrEmpty(email))),
                    NormalizePhone(cc, phone), pwd)

\* The arguments of the callers of the model.
Emails ==
   { None, <<>>, <<"a","n","n","@","x",".","i","o">>, <<" ","A","n","n","@","X",".","i","o"," ">>, <<"b","o","b","@","x",".","i","o">>, <<"a","n","n",".","x",".","i","o">>,
     <<"a","n","n","@","x","i","o">>, <<"a","@","b","@","x",".","i","o">>, <<"a","n","n"," ","@","x",".","i","o">>, <<"@","x",".","i","o">>, <<"a","n","n","@","x",".">> }

Passwords ==
   { None, <<"S","t","r","o","n","g","@","1","2","3">>, <<"O","t","h","e","r","#","4","5","6","7">>, <<"w","e","a","k","p","a","s","s">>, <<"S","t","r","o","n","g","1","2","3","4">>,
     <<"s","t","r","o","n","g","@","1","2","3">>, <<"S","h","@","r","t","1">> }

CountryCodes == { <<"+","1">>, <<" ","1">> }

PhoneNumbers == { <<>>, <<"5","5","5","-","0","1","0","0">>, <<"5","5","5","0","1","0","0">>, <<"5","5","5","0","1","9","9">>, <<"n","/","a">> }

\* create_user is called.
CreateUser(email, cc, phone, pwd) ==
   LET r == CreateUserResult(users, <<" ","A","d","a">>, <<"L","o","v","e","l","a","c","e">>, <<"D","i","n","e","r"," ">>,
                             email, cc, phone, pwd)
   IN  /\ users' = r.users
       /\ UNCHANGED <<store, otps, clock>>
       /\ last' = Called("create_user", <<>>,
                         [email |-> email, cc |-> cc, phone |-> phone, pwd |-> pwd],
                         "ok", NoError, r.value)

NextUsers ==
   \/ /\ IsIdle
      /\ \E email \in Emails, cc \in CountryCodes, phone \in PhoneNumbers,
            pwd \in Passwords : CreateUser(email, cc, phone, pwd)
   \/ Return

SpecUsers == Init /\ [][NextUsers]_vars

(***************************************************************************)
(* Commands of one item in several units, and of a second item.            *)
(***************************************************************************)

\* One item without a unit, in kg under two aliases and in litres, added
\* and removed, and another item without a unit.
UnitCommands ==
   { Cmd(A_add, <<"R","i","c","e">>, 5, <<>>, <<>>),
     Cmd(A_add, <<" ","t","h","e"," ","r","i","c","e">>, 5, <<"K","G","S">>, <<>>),
     Cmd(A_add, <<"r","i","c","e">>, 10, <<"l","t","r">>, <<>>),
     Cmd(A_remove, <<"R","i","c","e">>, 10, <<"k","i","l","o">>, <<>>),
     Cmd(A_remove, <<"r","i","c","e">>, 5, <<"l","t","r">>, <<>>),
     Cmd(A_remove, <<"R","i","c","e">>, 5, <<>>, <<>>),
     Cmd(A_add, <<"O","i","l">>, 5, <<>>, <<>>),
     Cmd(A_add, <<"O","i","l">>, 5, <<"l","t","r">>, <<>>) }

NextDefaultUnit ==
   \/ \E o \in Services, c \in UnitCommands, a \in Actors, src \in Sources :
         RecordCommand(o, c, a, src)
   \/ Return

SpecDefaultUnit == Init /\ [][NextDefaultUnit]_vars

(***************************************************************************)
(* create_snapshot next to another caller.  The call reads the aggregate   *)
(* through aggregate_inventory, in the session of list_transactions (line  *)
(* 305), and writes the snapshot and its audit row in a session of its own *)
(* opened afterwards (lines 306-325).  Between the two, calls of another   *)
(* caller run; each of them is one transaction.  While the call is under   *)
(* way, `last' holds its local snapshot_rows, and the tables as they were  *)
(* when it read them.                                                      *)
(***************************************************************************)

\* create_snapshot has run line 305.
SnapshotRead(owner, actor, label, snapshot_rows) ==
   Called("snapshot_read", owner,
          [actor |-> actor, label |-> label, snapshot_rows |-> snapshot_rows,
           items_read |-> items, txns_read |-> txns],
          "", NoError, None)

\* A call of another caller may add audit rows while one row is left for
\* the snapshot under way.
MayWriteMeanwhile(log) == log = audits \/ Len(log) < MaxAudit

\* create_snapshot(actor=actor, label=label) is called and reads the
\* aggregate.
SnapshotBegin(owner, actor, label) ==
   /\ IsIdle
   /\ Len(audits) < MaxAudit
   /\ UNCHANGED <<store, auth>>
   /\ last' = SnapshotRead(owner, actor, label, AggregateInventory(owner))

\* record_command of another caller, from its call to its return, while the
\* snapshot is under way.
RecordMeanwhile(owner, command, actor, source) ==
   /\ last.op = "snapshot_read"
   /\ \E r \in {RecordCommandResult(owner, command, actor, source)} :
      /\ MayWriteMeanwhile(r.audits)
      /\ items' = r.items
      /\ txns' = r.txns
      /\ audits' = r.audits
      /\ UNCHANGED <<snaps, auth, last>>

\* delete_transactions of another caller while the snapshot is under way.
DeleteMeanwhile(owner, txn_ids, actor) ==
   /\ last.op = "snapshot_read"
   /\ \E r \in {DeleteTransactionsResult(owner, txn_ids, actor)} :
      /\ MayWriteMeanwhile(r.audits)
      /\ txns' = r.txns
      /\ audits' = r.audits
      /\ UNCHANGED <<items, snaps, auth, last>>

\* The snapshot written with the aggregate of the tables as they are at the
\* commit.
SnapshotWrittenFresh(owner, actor, label, snapshot_rows) ==
   SnapshotOf(owner, actor, label, AggregateInventory(owner))

\* Lines 306-331 of create_snapshot with the rows read at line 305.
SnapshotWritten(owner, actor, label, snapshot_rows) ==
   SnapshotOf(owner, actor, label, snapshot_rows)

\* The snapshot under way is written and committed, and the view returned.
SnapshotCommit ==
   /\ last.op = "snapshot_read"
   /\ \E r \in {SnapshotWritten(last.owner, last.args.actor, last.args.label,
                                last.args.snapshot_rows)} :
      /\ snaps' = r.snaps
      /\ audits' = r.audits
      /\ UNCHANGED <<items, txns, auth>>
      /\ last' = Called("create_snapshot", last.owner,
                        [actor |-> last.args.actor, label |-> last.args.label],
                        "ok", NoError, r.value)

NextSnapshotRace ==
   \/ \E o \in Services, c \in GoodCommands, a \in Actors, src \in Sources :
         RecordCommand(o, c, a, src)
   \/ \E o \in Services, a \in Actors, l \in Labels : SnapshotBegin(o, a, l)
   \/ \E o \in Services, c \in GoodCommands, a \in Actors, src \in Sources :
         RecordMeanwhile(o, c, a, src)
   \/ \E o \in Services, ids \in IdLists, a \in Actors : DeleteMeanwhile(o, ids, a)
   \/ SnapshotCommit
   \/ Return

SpecSnapshotRace == Init /\ [][NextSnapshotRace]_vars

(***************************************************************************)
(* One-time passwords: generate_otp_for and verify_otp.  The clock counts  *)
(* minutes of datetime.utcnow().                                           *)
(***************************************************************************)

\* timedelta(minutes=10)
OTP_MINUTES == 10

\* The clock moves on by TickMinutes at a time, up to MaxClock.
TickMinutes == 6

MaxClock == 12

\* At most MaxOtps rows are stored in auth_otps at once, and no row gets an
\* id above MaxOtpId.
MaxOtps == 2

MaxOtpId == 3

\* "".join(ch for ch in ident if ch.isdigit() or ch == "+")
PhoneChars(ident) == SelectSeq(ident, LAMBDA c : IsDigit(c) \/ c = "+")

\* The rows of table that the phone branch of find_user_by_email_or_phone
\* matches: by the end of the number without a leading '+', by the whole
\* number with one.
MatchedByPhone(table, digits) ==
   IF ~StartsWith(digits, <<"+">>)
      THEN {u \in table : EndsWith(u.phone_e164, digits)}
   ELSE {u \in table : u.phone_e164 = digits}

\* find_user_by_email_or_phone from the stripped identifier on: the user
\* returned, as a set that is empty for None.
FoundByIdent(table, ident) ==
   IF \E i \in 1..Len(ident) : ident[i] = AtSign
      THEN {u \in table : u.email = Lower(ident)}
   ELSE IF MatchedByPhone(table, PhoneChars(ident)) = {} THEN {}
   ELSE {FirstById(MatchedByPhone(table, PhoneChars(ident)))}

\* find_user_by_email_or_phone(identifier)
FindUserByEmailOrPhone(table, identifier) ==
   FoundByIdent(table, Strip(OrEmpty(identifier)))

\* The AuthOTP row generate_otp_for adds.
NewOtp(table, user, purpose, code, now) ==
   [id |-> NextId(table), email |-> user.email, phone_e164 |-> user.phone_e164,
    code |-> code, purpose |-> purpose, expires_at |-> now + OTP_MINUTES]

\* The rows verify_otp selects.
OtpRows(table, user, purpose) ==
   {r \in table : /\ r.email = user.email
                  /\ r.phone_e164 = user.phone_e164
                  /\ r.purpose = purpose}

\* verify_otp deleting the row that matched and no other.
VerifiedDeletingMatched(table, rows, now, code) ==
   IF \E r \in rows : now <= r.expires_at /\ r.code = Strip(code)
      THEN [otps |-> table \ {r \in rows : now <= r.expires_at /\ r.code = Strip(code)},
            value |-> Answer(TRUE, "Verified.")]
   ELSE [otps |-> table, value |-> Answer(FALSE, "Invalid or expired OTP.")]

\* The loop of verify_otp over the rows selected: table auth_otps after it
\* and the pair returned.
Verified(table, rows, now, code) ==
   IF \E r \in rows : now <= r.expires_at /\ r.code = Strip(code)
      THEN [otps |-> table \ rows, value |-> Answer(TRUE, "Verified.")]
   ELSE [otps |-> table, value |-> Answer(FALSE, "Invalid or expired OTP.")]

\* verify_otp with the user found.
VerifyFound(table, found, now, code, purpose) ==
   IF found = {} THEN [otps |-> table, value |-> Answer(FALSE, "Account not found.")]
   ELSE Verified(table, OtpRows(table, FirstById(found), purpose), now, code)

\* verify_otp(identifier, code, purpose)
VerifyOtpResult(identifier, code, purpose) ==
   VerifyFound(otps, FindUserByEmailOrPhone(users, identifier), clock, code, purpose)

\* The accounts signed up in the model.
SignUps ==
   { [email |-> <<"a","n","n","@","x",".","i","o">>, cc |-> <<"+","1">>, phone |-> <<"5","5","5","-","0","1","0","0">>, pwd |-> <<"S","t","r","o","n","g","@","1","2","3">>],
     [email |-> <<"b","o","b","@","x",".","i","o">>, cc |-> <<"+","1">>, phone |-> <<"5","5","5","-","0","1","9","9">>, pwd |-> <<"O","t","h","e","r","#","4","5","6","7">>] }

\* secrets.randbelow(1000000) formatted: the codes drawn in the model.
Codes == { <<"0","0","0","1","2","3">>, <<"6","5","4","3","2","1">> }

\* The codes handed to verify_otp: the codes drawn, one with blanks around
\* it, and a code never drawn.
CodesTried == Codes \cup { <<" ","0","0","0","1","2","3"," ">>, <<"1","1","1","1","1","1">> }

Purposes == { <<"l","o","g","i","n">>, <<"r","e","s","e","t">> }

\* The identifiers handed to verify_otp: emails, also in another case,
\* whole phone numbers, the ends of phone numbers, nothing, and an unknown
\* email.
Identifiers ==
   { <<"a","n","n","@","x",".","i","o">>, <<" ","B","o","b","@","X",".","i","o">>, <<"+","1","5","5","5","0","1","0","0">>, <<"5","5","5"," ","0","1","9","9">>, <<"0","1">>, <<>>, None,
     <<"z","e","d","@","x",".","i","o">> }

\* generate_otp_for(user, purpose), the code drawn being code.
GenerateOtpFor(user, purpose, code) ==
   /\ Cardinality(otps) < MaxOtps /\ NextId(otps) <= MaxOtpId
   /\ otps' = otps \cup {NewOtp(otps, user, purpose, code, clock)}
   /\ UNCHANGED <<store, users, clock>>
   /\ last' = Called("generate_otp_for", <<>>, [user |-> user, purpose |-> purpose],
                     "ok", NoError, code)

\* verify_otp is called.
VerifyOtp(identifier, code, purpose) ==
   /\ otps' = VerifyOtpResult(identifier, code, purpose).otps
   /\ UNCHANGED <<store, users, clock>>
   /\ last' = Called("verify_otp", <<>>,
                     [identifier |-> identifier, code |-> code, purpose |-> purpose],
                     "ok", NoError, VerifyOtpResult(identifier, code, purpose).value)

\* Time passes.
Tick ==
   /\ clock + TickMinutes <= MaxClock
   /\ clock' = clock + TickMinutes
   /\ UNCHANGED <<store, users, otps, last>>

NextOtp ==
   \/ /\ IsIdle
      /\ \E a \in SignUps : CreateUser(a.email, a.cc, a.phone, a.pwd)
   \/ /\ IsIdle
      /\ \E u \in users, p \in Purposes, c \in Codes : GenerateOtpFor(u, p, c)
   \/ /\ IsIdle
      /\ \E i \in Identifiers, c \in CodesTried, p \in Purposes : VerifyOtp(i, c, p)
   \/ Tick
   \/ Return

SpecOtp == Init /\ [][NextOtp]_vars

(***************************************************************************)
(* Properties.  A step from an idle caller to last'.op = op is one whole   *)
(* call of op: the store before it is the unprimed one, the store after it *)
(* the primed one, and last' holds the arguments and what came back.       *)
(***************************************************************************)

\* The step is a call of op.
Calls(op) == last.op = "none" /\ last'.op = op

\* The step is a call of op that did not end in a storage error.
Completes(op) == Calls(op) /\ last'.outcome # "StorageError"

\* The signed sum of table's rows of one item at one normalized location.
StockIn(table, owner, item_id, location_norm) ==
   SignedSum({t \in table : /\ t.owner_key = owner
                            /\ t.item_id = item_id
                            /\ t.location_normalized = location_norm})

\* The stock of the owner's item of a normalized name in tables its and tx,
\* 0 when there is no such item.
StockOfNameIn(its, tx, owner, normalized, location_norm) ==
   SignedSum({t \in tx : /\ t.owner_key = owner
                         /\ t.location_normalized = location_norm
                         /\ \E i \in its : /\ i.id = t.item_id
                                           /\ i.owner_key = owner
                                           /\ i.normalized_name = normalized})

StockOfName(owner, normalized, location_norm) ==
   StockOfNameIn(items, txns, owner, normalized, location_norm)

\* The command passes every check that comes before the stock check.
Validated(n) ==
   /\ ~n.q.raises /\ ~n.q.nan /\ n.q.val > 0
   /\ n.action_raw \in {A_add, A_remove}
   /\ Lower(CleanItem(n.item_raw)) # <<>>

\* The arguments of the call in last', as record_command normalizes them.
CalledWith == Normalized(last'.args.command, last'.args.actor, last'.args.source)

\* No bucket of table sums below -floor.
StockAtLeast(table, floor) ==
   \A t \in table :
      StockIn(table, t.owner_key, t.item_id, t.location_normalized) >= floor

\* A remove row is new only if its quantity was at most the stock plus slack.
RemoveWithinStock(slack) ==
   \A t \in txns' \ txns :
      t.kind = "OUT" =>
         t.qty <= StockIn(txns, t.owner_key, t.item_id, t.location_normalized) + slack

\* A remove of exactly the available stock is recorded.
ExactRemoveAccepted ==
   (/\ Completes("record_command")
    /\ Validated(CalledWith)
    /\ CalledWith.action_raw = A_remove
    /\ CalledWith.q.val =
          StockOfName(last'.owner, Lower(CleanItem(CalledWith.item_raw)),
                      CalledWith.location_norm))
   => /\ last'.outcome = "ok"
      /\ \E new \in txns' \ txns : new.kind = "OUT" /\ new.qty = CalledWith.q.val

\* C1 (with the tolerance of the stock check): in a ledger from which nothing
\* is deleted, no (item, normalized location) bucket ever sums below -1e-9;
\* a remove is appended only if its quantity exceeds the bucket's sum at the
\* time of the call by at most 1e-9, and a remove of exactly the available
\* quantity is accepted.
C1_StockWithinTolerance ==
   [][/\ StockAtLeast(txns, -TOL) /\ StockAtLeast(txns', -TOL)
      /\ RemoveWithinStock(TOL)
      /\ ExactRemoveAccepted]_vars

\* C1 as claimed: no bucket ever sums below 0, and a remove is appended only
\* if its quantity does not exceed the bucket's sum.
C1_StockNeverNegative ==
   [][/\ StockAtLeast(txns, 0) /\ StockAtLeast(txns', 0)
      /\ RemoveWithinStock(0)
      /\ ExactRemoveAccepted]_vars

\* A remove of exactly the available quantity, which is more than the
\* tolerance, has just been recorded and has emptied its bucket.
C1_ExactRemovalRecorded ==
   /\ last.op = "record_command" /\ last.outcome = "ok"
   /\ last.result.action = A_remove
   /\ last.result.quantity > TOL
   /\ \E t \in txns :
         /\ t.id = last.result.id
         /\ StockIn(txns, t.owner_key, t.item_id, t.location_normalized) = 0

\* A validated remove of more than the stock plus slack is refused with the
\* error of the stock check (a storage error apart) and changes nothing.
ExcessRemoveRefused(slack) ==
   (/\ Calls("record_command")
    /\ Validated(CalledWith)
    /\ CalledWith.action_raw = A_remove
    /\ CalledWith.q.val >
          StockOfName(last'.owner, Lower(CleanItem(CalledWith.item_raw)),
                      CalledWith.location_norm) + slack)
   => /\ last'.outcome \in {"InventoryError", "StorageError"}
      /\ last'.outcome = "InventoryError" => last'.error.kind = "insufficient"
      /\ store' = store

\* C2 (with the tolerance of the stock check): a record_command remove whose
\* quantity exceeds the stock available for its item and normalized location
\* by more than 1e-9 raises InventoryError and leaves the store as it was:
\* no transaction, no audit entry, no new or modified Item, also when the
\* item name was never recorded before.
C2_ExcessRemoveLeavesStore == [][ExcessRemoveRefused(TOL)]_vars

\* C2 as claimed: every remove whose quantity exceeds the available stock is
\* refused.
C2_AnyExcessRemoveRefused == [][ExcessRemoveRefused(0)]_vars

\* A remove of an item name never recorded before has just been refused for
\* lack of stock, and the store holds no item.
C2_UnknownItemRefused ==
   /\ last.op = "record_command"
   /\ last.outcome = "InventoryError" /\ last.error.kind = "insufficient"
   /\ items = {} /\ txns = {} /\ audits = <<>>

\* The audit entries of one tenant in a log.
AuditsOf(log, owner) == {k \in 1..Len(log) : log[k].owner_key = owner}

\* The audit entries the call in last' owes to tenant o.
AuditsOwed(o) ==
   IF last'.owner # o \/ last'.outcome # "ok" THEN 0
   ELSE IF last'.op \in {"record_command", "create_snapshot"} THEN 1
   ELSE IF last'.op \in {"delete_transactions", "clear_transactions"}
      THEN Cardinality({t \in txns : t.owner_key = o} \ txns')
   ELSE IF last'.op = "delete_snapshot" THEN (IF last'.result THEN 1 ELSE 0)
   ELSE 0

\* C3: every call adds to the tenant's audit entries one for a successful
\* record_command, one per transaction deleted, one for a snapshot created,
\* one for a delete_snapshot that returned true, and none when it failed or
\* only read; so the tenant's entries always number the sum of these.
C3_AuditEntriesCounted ==
   [][last.op = "none" /\ last'.op # "none" =>
         \A o \in Services :
            Cardinality(AuditsOf(audits', o)) =
               Cardinality(AuditsOf(audits, o)) + AuditsOwed(o)]_vars

\* A record_command call has raised a storage error and the audit log holds
\* an entry for the transaction it was recording.
C3_FailedCallAudited ==
   /\ last.op = "record_command" /\ last.outcome = "StorageError"
   /\ Len(audits) = 1 /\ Cardinality(txns) = 1

\* The rows of the caller that a delete_transactions call names.
Named == {t \in txns : t.owner_key = last'.owner
                       /\ t.id \in SeqRange(last'.args.txn_ids)}

\* The audit entries the step added.
Added == (Len(audits) + 1)..Len(audits')

\* C4: delete_transactions(ids) removes exactly the stored transactions whose
\* id is in ids and whose owner is the caller, returns how many they are (0
\* when none, a repeated id counted once), appends one 'inventory.delete'
\* audit entry for each of them and nothing else, and leaves the listed
\* transactions of other tenants in place.
C4_DeleteExactlyOwn ==
   [][Completes("delete_transactions") =>
         /\ last'.outcome = "ok"
         /\ txns' = txns \ Named
         /\ last'.result = Cardinality(Named)
         /\ Len(audits') = Len(audits) + Cardinality(Named)
         /\ SubSeq(audits', 1, Len(audits)) = audits
         /\ \A k \in Added : /\ audits'[k].action = AUDIT_DELETE
                             /\ audits'[k].owner_key = last'.owner
         /\ {audits'[k].reference_id : k \in Added} = {t.id : t \in Named}
         /\ \A t \in txns : t.owner_key # last'.owner => t \in txns'
         /\ items' = items /\ snaps' = snaps]_vars

\* A delete_transactions call that named a row of its own and a row of the
\* other tenant has returned 1, and the other tenant's row is still stored.
C4_ForeignIdListed ==
   /\ last.op = "delete_transactions" /\ last.outcome = "ok"
   /\ last.result = 1
   /\ \E t \in txns : /\ t.owner_key # last.owner
                      /\ t.id \in SeqRange(last.args.txn_ids)

\* What tenant p can observe in tables its, tx and sn: its listings, and the
\* stock available to each removal it may ask for.
Observed(its, tx, sn, p) ==
   [transactions |-> ListTransactionsIn(its, tx, p),
    inventory |-> AggregateInventoryIn(its, tx, p),
    snapshots |-> ListSnapshotsIn(sn, p),
    available |-> [c \in GoodCommands |->
                     StockOfNameIn(its, tx, p, Lower(CleanItem(Strip(c.item))),
                                   NormalizeLocation(Strip(c.location)))]]

\* C5: no call of one tenant, whether it returns or raises, changes what
\* list_transactions, aggregate_inventory and list_snapshots return for
\* another tenant, nor the stock available to the other's removals.
C5_TenantsIsolated ==
   [][last.op = "none" /\ last'.op # "none" =>
         \A p \in Services \ {last'.owner} :
            Observed(items', txns', snaps', p) = Observed(items, txns, snaps, p)]_vars

\* Both tenants hold a transaction of the same item name, unit and location,
\* and the last call recorded one of them.
C5_SameNamesBothTenants ==
   /\ last.op = "record_command" /\ last.outcome = "ok"
   /\ \E t \in txns, u \in txns :
         /\ t.owner_key # u.owner_key
         /\ ItemOf(t).normalized_name = ItemOf(u).normalized_name
         /\ t.unit = u.unit
         /\ t.location_normalized = u.location_normalized

\* C6: when the store fails at any step inside record_command,
\* delete_transactions, create_snapshot or delete_snapshot, the call raises
\* and none of its writes is in the store afterwards.
C6_FailedCallWritesNothing ==
   [][last.op = "none" /\ last'.outcome = "StorageError" => store' = store]_vars

\* A create_snapshot call has raised a storage error and the snapshot it was
\* creating is stored.
C6_FailedSnapshotStored ==
   /\ last.op = "create_snapshot" /\ last.outcome = "StorageError"
   /\ Cardinality(snaps) = 1 /\ Len(audits) = 1

\* The grouping key of a stored transaction: the cleaned lowercased name of
\* its item, its normalized unit (the item's when it has none), and its
\* lowercased location.
KeyOf(t) ==
   [item |-> Lower(CleanItem(ItemOf(t).name)),
    unit |-> NormalizeUnit(OrElse(t.unit, ItemOf(t).unit)),
    location |-> Lower(t.location)]

\* The sum of the quantities of a set of transactions.
RECURSIVE QuantitySum(_)
QuantitySum(rows) ==
   IF rows = {} THEN 0
   ELSE LET t == CHOOSE r \in rows : TRUE
        IN  t.qty + QuantitySum(rows \ {t})

\* The key of a row aggregate_inventory returned.
RowKey(row) == [item |-> row.item, unit |-> row.unit, location |-> row.location]

\* The rows answer the transactions own: one row for each key, holding the
\* adds minus the removes of that key.
Aggregates(rows, own) ==
   /\ Len(rows) = Cardinality({KeyOf(t) : t \in own})
   /\ {RowKey(rows[k]) : k \in 1..Len(rows)} = {KeyOf(t) : t \in own}
   /\ \A k \in 1..Len(rows) :
         rows[k].net_quantity =
            QuantitySum({t \in own : KeyOf(t) = RowKey(rows[k]) /\ t.kind = "IN"})
            - QuantitySum({t \in own : KeyOf(t) = RowKey(rows[k]) /\ t.kind = "OUT"})

\* C7: aggregate_inventory returns exactly one row for each distinct (cleaned
\* lowercased item name, normalized unit, lowercased location) among the
\* tenant's stored transactions, a key of net 0 included, and the row's
\* net_quantity is the sum of the adds minus the sum of the removes of that
\* key; adding 10 and removing 5 of one key gives 5.
C7_AggregateByKey ==
   last.op = "aggregate_inventory" =>
      Aggregates(last.result, {t \in txns : t.owner_key = last.owner})

\* aggregate_inventory has returned one row of net 5 for a tenant whose
\* transactions are an add of 10 and a remove of 5 of one key.
C7_TenMinusFive ==
   /\ last.op = "aggregate_inventory"
   /\ Len(last.result) = 1 /\ last.result[1].net_quantity = 5
   /\ \E a, r \in txns :
         /\ {t \in txns : t.owner_key = last.owner} = {a, r}
         /\ a.kind = "IN" /\ a.qty = 10
         /\ r.kind = "OUT" /\ r.qty = 5

\* C8: the data create_snapshot returns is what aggregate_inventory returns
\* on the same store, and list_snapshots then returns that snapshot with the
\* same rows; every listed snapshot holds the rows its stored text encodes.
C8_SnapshotRoundTrip ==
   /\ last.op = "create_snapshot" /\ last.outcome = "ok" =>
         /\ last.result.data = AggregateInventory(last.owner)
         /\ \E k \in 1..Len(ListSnapshots(last.owner)) :
               /\ ListSnapshots(last.owner)[k].id = last.result.id
               /\ ListSnapshots(last.owner)[k].data = last.result.data
   /\ last.op = "list_snapshots" =>
         \A k \in 1..Len(last.result) :
            \E sn \in snaps : /\ sn.id = last.result[k].id
                              /\ sn.data = DumpsRows(last.result[k].data)

\* create_snapshot has returned two rows, one of them of negative net.
C8_SnapshotOfTwoRows ==
   /\ last.op = "create_snapshot" /\ last.outcome = "ok"
   /\ Len(last.result.data) = 2
   /\ \E k \in 1..2 : last.result.data[k].net_quantity < 0

\* The snapshot views of a listing with their position left out.
Views(listing) == {listing[k] : k \in 1..Len(listing)}

\* C9: whatever is called, a snapshot that list_snapshots returned before the
\* call is returned after it with the same id, label, actor and data, unless
\* the call is a delete_snapshot of that id by its tenant that returned true,
\* after which it is not returned at all.
C9_SnapshotsImmutable ==
   [][last.op = "none" /\ last'.op # "none" =>
         \A o \in Services :
            \A v \in Views(ListSnapshotsIn(snaps, o)) :
               IF /\ last'.op = "delete_snapshot" /\ last'.owner = o
                  /\ last'.outcome = "ok" /\ last'.args.snapshot_id = v.id
                  THEN /\ last'.result = TRUE
                       /\ \A w \in Views(ListSnapshotsIn(snaps', o)) : w.id # v.id
                  ELSE v \in Views(ListSnapshotsIn(snaps', o))]_vars

\* A labelled snapshot is stored whose data is no longer what
\* aggregate_inventory returns, the last call having recorded a transaction.
C9_SnapshotOutlivesStock ==
   /\ last.op = "record_command" /\ last.outcome = "ok"
   /\ \E sn \in snaps :
         /\ sn.owner_key = last.owner
         /\ sn.label # None
         /\ LoadsRows(sn.data) # AggregateInventory(last.owner)

\* C10: delete_snapshot(id) returns true, removes the snapshot and appends
\* exactly one audit entry when the caller owns a snapshot of that id;
\* otherwise it returns false, raises nothing, and changes no snapshot and no
\* audit entry.
C10_DeleteSnapshotOwnOnly ==
   [][Completes("delete_snapshot") =>
         /\ last'.outcome = "ok"
         /\ IF \E sn \in snaps : /\ sn.id = last'.args.snapshot_id
                                 /\ sn.owner_key = last'.owner
               THEN /\ last'.result = TRUE
                    /\ snaps' = {sn \in snaps : sn.id # last'.args.snapshot_id}
                    /\ Len(audits') = Len(audits) + 1
                    /\ SubSeq(audits', 1, Len(audits)) = audits
                    /\ audits'[Len(audits')].action = AUDIT_SNAPSHOT_DELETE
                    /\ audits'[Len(audits')].owner_key = last'.owner
                    /\ audits'[Len(audits')].reference_id = last'.args.snapshot_id
               ELSE /\ last'.result = FALSE
                    /\ snaps' = snaps /\ audits' = audits
         /\ items' = items /\ txns' = txns]_vars

\* delete_snapshot has returned false for the id of a snapshot that another
\* tenant owns, and the snapshot is still stored.
C10_ForeignSnapshotKept ==
   /\ last.op = "delete_snapshot" /\ last.outcome = "ok"
   /\ last.result = FALSE
   /\ \E sn \in snaps : sn.id = last.args.snapshot_id /\ sn.owner_key # last.owner


\* The step is the commit step of session s, taken after its stock check.
CommitsChecked(s) ==
   /\ last.op = "sessions"
   /\ Sessions[s].phase = "checked"
   /\ SessionsOf(last')[s].phase = "done"

\* C11: a removal that has passed its stock check is committed whatever was
\* committed since it read the available quantity: two concurrent removals
\* of one tenant, item and location can both read the same quantity and both
\* commit, and the bucket then sums to the stock minus both removals, which
\* is negative although neither removal alone exceeded the stock.
C11_StaleCheckCommits ==
   [][\A s \in SessionIds :
         CommitsChecked(s) =>
            /\ SessionsOf(last')[s].outcome = "ok"
            /\ \E new \in txns' \ txns :
                  /\ txns' = txns \cup {new}
                  /\ new.kind = "OUT" /\ new.qty = Sessions[s].n.q.val
                  /\ new.owner_key = Sessions[s].owner
                  /\ new.item_id = Sessions[s].item.id
                  /\ StockIn(txns', new.owner_key, new.item_id, new.location_normalized)
                        = StockIn(txns, new.owner_key, new.item_id,
                                  new.location_normalized) - new.qty]_vars

\* Two removals of one tenant, item and location have both read the same
\* available quantity, which neither exceeded, and both are committed: the
\* bucket sums to less than zero by more than the tolerance.
C11_BothRemovalsCommitted ==
   /\ last.op = "sessions"
   /\ \A s \in SessionIds :
         /\ Sessions[s].phase = "done" /\ Sessions[s].outcome = "ok"
         /\ Kind(Sessions[s].n) = "OUT"
         /\ Sessions[s].n.q.val <= Sessions[s].available
   /\ Sessions[1].owner = Sessions[2].owner
   /\ Sessions[1].item.id = Sessions[2].item.id
   /\ Sessions[1].n.location_norm = Sessions[2].n.location_norm
   /\ Sessions[1].available = Sessions[2].available
   /\ StockIn(txns, Sessions[1].owner, Sessions[1].item.id,
              Sessions[1].n.location_norm) < -TOL

\* The rows a call of delete_transactions or clear_transactions is to
\* remove: the caller's rows it names, or all the caller's rows.
ToDelete ==
   {t \in txns : /\ t.owner_key = last'.owner
                 /\ \/ last'.op = "clear_transactions"
                    \/ t.id \in SeqRange(last'.args.txn_ids)}

\* C12: delete_transactions and clear_transactions never refuse a deletion
\* for its effect on stock: a call the store does not fail returns, every
\* row of the caller it was to remove is gone and counted, whatever the
\* remaining rows of the bucket sum to; deleting an add after a later remove
\* of its bucket was accepted leaves aggregate_inventory reporting a negative
\* net_quantity.
C12_DeleteNeverRefused ==
   [][Completes("delete_transactions") \/ Completes("clear_transactions") =>
         /\ last'.outcome = "ok"
         /\ txns' = txns \ ToDelete
         /\ last'.result = Cardinality(ToDelete)]_vars

\* An add, a remove of the same bucket and the deletion of the add were
\* audited in this order, and aggregate_inventory has returned a row of
\* negative net_quantity for the tenant.
C12_NegativeAfterDelete ==
   /\ last.op = "aggregate_inventory"
   /\ \E k \in 1..Len(last.result) : last.result[k].net_quantity < -TOL
   /\ Len(audits) = 3
   /\ \A k \in 1..3 : audits[k].owner_key = last.owner
   /\ audits[1].action = INVENTORY_DOT \o A_add
   /\ audits[2].action = INVENTORY_DOT \o A_remove
   /\ audits[3].action = AUDIT_DELETE
   /\ audits[3].reference_id = audits[1].reference_id

\* Table its holds at most one Item per owner and normalized name.
OneItemPerName(its) ==
   \A i \in its, j \in its :
      i.owner_key = j.owner_key /\ i.normalized_name = j.normalized_name => i = j

\* C13: in every reachable state, also after two concurrent first records of
\* one item name, at most one Item exists per tenant and normalized name; an
\* Item is added only when the tenant has none of that normalized name, and
\* no Item is ever deleted.
C13_OneItemPerName ==
   [][/\ OneItemPerName(items) /\ OneItemPerName(items')
      /\ \A new \in items' :
            (\A i \in items : i.id # new.id) =>
               \A i \in items : ~(/\ i.owner_key = new.owner_key
                                  /\ i.normalized_name = new.normalized_name)
      /\ \A i \in items : \E j \in items' :
            /\ j.id = i.id /\ j.owner_key = i.owner_key
            /\ j.normalized_name = i.normalized_name]_vars

\* Two calls that both found no Item of the name have both inserted one: the
\* tenant has two Items of one normalized name.
C13_TwoItemsOfOneName ==
   /\ ~OneItemPerName(items)
   /\ \A s \in SessionIds : Sessions[s].phase = "done" /\ Sessions[s].created

\* The quantity of a command is missing, not a number, zero or negative.
BadQuantity(q) ==
   \/ q.kind = "none"
   \/ q.kind = "str" /\ ~IsNumberText(Strip(q.text))
   \/ q.kind = "str" /\ IsNumberText(Strip(q.text)) /\ ParseNum(Strip(q.text)) <= 0
   \/ q.kind = "num" /\ q.num <= 0

\* The command is one record_command is to refuse as bad input.
BadInput(command) ==
   \/ BadQuantity(command.quantity)
   \/ Lower(Strip(command.action)) \notin {A_add, A_remove}
   \/ CleanItem(command.item) = <<>>

\* C14: record_command raises InventoryError and writes nothing, no item, no
\* transaction and no audit entry, when the quantity is missing, not
\* numeric, zero or negative, when the action is neither add nor remove, or
\* when the item name is empty after cleaning; so every stored transaction
\* has a quantity above zero and direction IN or OUT.
C14_BadInputRefused ==
   [][/\ Calls("record_command") /\ BadInput(last'.args.command) =>
            /\ last'.outcome = "InventoryError"
            /\ last'.error.kind \in {"numeric", "action", "positive", "item"}
            /\ store' = store
      /\ \A t \in txns' : t.qty > 0 /\ t.kind \in {"IN", "OUT"}]_vars

\* A command with a negative quantity was refused on a store that holds
\* transactions.
C14_NegativeQuantityRefused ==
   /\ last.op = "record_command" /\ last.outcome = "InventoryError"
   /\ last.error.kind = "positive"
   /\ last.args.command.quantity.kind = "num"
   /\ last.args.command.quantity.num < 0
   /\ txns # {}

\* The key is None, empty or blank.
BlankKey(k) == k = None \/ \A i \in 1..Len(k) : k[i] = " "

\* Two keys differ at most in letter case and in the blanks around them.
SameKey(a, b) == Lower(Strip(a)) = Lower(Strip(b))

\* C15: a service is bound to its owner key trimmed and lowercased; a key
\* that is empty after trimming is refused by the constructor with
\* ValueError, and no call of a constructed service raises it; services
\* whose keys differ only in letter case or surrounding blanks are bound to
\* one tenant and list the same transactions.
C15_OwnerKeyNormalized ==
   [][/\ Calls("__init__") =>
            /\ last'.outcome = "ValueError" <=> BlankKey(last'.args.owner_key)
            /\ last'.outcome = "ok" =>
                  /\ last'.owner = Lower(Strip(last'.args.owner_key))
                  /\ last'.owner # <<>>
      /\ last'.op \notin {"none", "__init__"} =>
            last'.outcome # "ValueError" /\ last'.owner # <<>>
      /\ \A a \in OwnerKeyInputs, b \in OwnerKeyInputs :
            ~BlankKey(a) /\ ~BlankKey(b) /\ SameKey(a, b) =>
               /\ NewService(a).owner = NewService(b).owner
               /\ ListTransactionsIn(items', txns', NewService(a).owner)
                     = ListTransactionsIn(items', txns', NewService(b).owner)]_vars

\* A service constructed with the key ' ANN' is bound to the tenant for
\* which the service constructed with 'Ann ' has recorded a transaction.
C15_SameTenantOtherSpelling ==
   /\ last.op = "__init__" /\ last.outcome = "ok"
   /\ last.args.owner_key = <<" ","A","N","N">>
   /\ ListTransactions(last.owner) # <<>>
   /\ \A t \in txns : t.owner_key = NewService(<<"A","n","n"," ">>).owner

\* C16: no operation modifies or deletes an audit entry: at every step the
\* audit log keeps all its entries as they were, in their order, and at most
\* gains entries at its end; the entries of transactions and snapshots that
\* are deleted later stay in it.
C16_AuditLogOnlyGrows ==
   [][/\ Len(audits') >= Len(audits)
      /\ SubSeq(audits', 1, Len(audits)) = audits
      /\ \A o \in Services :
            Cardinality(AuditsOf(audits', o)) >= Cardinality(AuditsOf(audits, o))]_vars

\* The log holds the entry of a recorded transaction and, after it, the
\* entry of that transaction's deletion, and the transaction is gone.
C16_EntryOutlivesTransaction ==
   /\ last.op \in {"delete_transactions", "clear_transactions"}
   /\ \E j \in 1..Len(audits), k \in 1..Len(audits) :
         /\ j < k
         /\ audits[j].entity = ENTITY_TXN /\ audits[j].action # AUDIT_DELETE
         /\ audits[k].action = AUDIT_DELETE
         /\ audits[k].reference_id = audits[j].reference_id
         /\ audits[k].owner_key = audits[j].owner_key
         /\ \A t \in txns : t.id # audits[j].reference_id

\* C17: the unit normalizer is idempotent: for every input x,
\* _normalize_unit(_normalize_unit(x)) = _normalize_unit(x), also for tokens
\* that match no alias.
C17_NormalizeUnitIdempotent ==
   last.op = "_normalize_unit" => NormalizeUnit(last.result) = last.result

\* _normalize_unit('glasses') has returned 'glass', of which it makes 'glas'.
C17_GlassesNotStable ==
   /\ last.op = "_normalize_unit"
   /\ last.args.unit = <<"g","l","a","s","s","e","s">>
   /\ last.result = <<"g","l","a","s","s">>
   /\ NormalizeUnit(last.result) = <<"g","l","a","s">>

\* C18: for every alias of the unit table, written in any letter case and
\* with a period, a space or a hyphen put in, _normalize_unit returns the
\* canonical tag the alias is listed under; no alias is listed under two
\* tags, and every canonical tag maps to itself.
C18_AliasGivesTag ==
   /\ last.op = "_normalize_unit" /\ last.args.alias # None =>
         last.result = last.args.tag
   /\ \A i \in 1..Len(UNIT_MAP), j \in 1..Len(UNIT_MAP) :
         i # j => UNIT_MAP[i].aliases \cap UNIT_MAP[j].aliases = {}
   /\ \A i \in 1..Len(UNIT_MAP) : NormalizeUnit(UNIT_MAP[i].std) = UNIT_MAP[i].std

\* _normalize_unit('LT.RS') has returned 'l', the tag of the alias 'ltrs'.
C18_SpelledAlias ==
   /\ last.op = "_normalize_unit"
   /\ last.args.alias = <<"l","t","r","s">>
   /\ last.args.unit = <<"L","T",".","R","S">>
   /\ last.result = <<"l">>

\* The token as _normalize_unit cleans it (lines 33-37).
CleanedUnit(unit) ==
   RemoveChar(RemoveChar(RemoveChar(Lower(Strip(unit)), "."), "-"), " ")

\* The cleaned token is no alias, and its singular, if it has one, is
\* neither an alias nor a canonical tag.
Unmatched(u) ==
   /\ \A i \in 1..Len(UNIT_MAP) : u \notin UNIT_MAP[i].aliases
   /\ \A i \in 1..Len(UNIT_MAP) :
         /\ SingularCandidate(u) \notin UNIT_MAP[i].aliases
         /\ SingularCandidate(u) # UNIT_MAP[i].std

\* C19: when a unit token matches no alias, neither directly nor after
\* singularization, _normalize_unit returns the cleaned token verbatim: the
\* token trimmed, lowercased and without periods, spaces and hyphens.
C19_UnmatchedReturnedVerbatim ==
   last.op = "_normalize_unit" /\ Unmatched(CleanedUnit(last.args.unit)) =>
      last.result = CleanedUnit(last.args.unit)

\* _normalize_unit('Cans.') has returned 'can', not the cleaned token 'cans'.
C19_PluralReturnedSingular ==
   /\ last.op = "_normalize_unit"
   /\ last.args.unit = <<"C","a","n","s",".">>
   /\ Unmatched(CleanedUnit(last.args.unit))
   /\ last.result = <<"c","a","n">>

\* The words of a text: its longest runs of characters without a blank.
WordsOf(s) ==
   {SubSeq(s, i, j - 1) : <<i, j>> \in
      {<<a, b>> \in (1..Len(s)) \X (2..(Len(s) + 1)) :
          /\ a < b
          /\ \A k \in a..(b - 1) : ~IsSpace(s[k])
          /\ a = 1 \/ IsSpace(s[a - 1])
          /\ b = Len(s) + 1 \/ IsSpace(s[b])}}

\* The action words that stand as words of their own in the text, in any
\* letter case.
ActionWordsIn(text) ==
   WordsOf(Lower(OrEmpty(text))) \cap {ACTION_WORDS[i] : i \in 1..Len(ACTION_WORDS)}

\* C20: parse_inventory_command returns None for a text that is empty or
\* blank or has none of the words add, remove, deduct, subtract, reduce,
\* delete standing as a word of its own; every command it returns has the
\* action 'add' when 'add' is one of the words of the text, wherever it
\* stands, and the action 'remove' when only removal words are.
C20_ActionFromKeyword ==
   last.op = "parse_inventory_command" =>
      /\ ActionWordsIn(last.args.text) = {} => last.result = NoCommand
      /\ last.result # NoCommand =>
            last.result.action =
               IF A_add \in ActionWordsIn(last.args.text) THEN A_add ELSE A_remove

\* A text that begins with a removal word and has 'add' after it is parsed
\* as an addition.
C20_AddAfterRemovalWord ==
   /\ last.op = "parse_inventory_command"
   /\ last.args.text # None
   /\ StartsWith(Lower(last.args.text), <<"r","e","m","o","v","e"," ","a","d","d"," ">>)
   /\ last.result # NoCommand
   /\ last.result.action = A_add

\* The text of a call in one of the two forms.
IsForm == last.op = "parse_inventory_command" /\ "form" \in DOMAIN last.args

\* C21: for a text of the quantity-first form '<action> <number> <unit> of
\* <item> in <location>' or of the item-first form '<action> <item> <number>
\* <unit> from <location>' with a known unit alias, the parser returns the
\* action ('add' for add, 'remove' for the removal words), the item, the
\* number as quantity, the canonical unit of the alias and the location;
\* item and location stand in the lower case of the text that is parsed.
C21_FormsParsed ==
   IsForm =>
      last.result =
         [action |-> IF Lower(last.args.action) = A_add THEN A_add ELSE A_remove,
          item |-> Lower(last.args.item),
          quantity |-> [kind |-> "float", whole |-> last.args.number.whole,
                        frac |-> last.args.number.frac],
          unit |-> last.args.tag,
          location |-> Lower(last.args.location),
          note |-> <<>>]

\* 'deduct green tea 2,50 kilos from Top shelf' gives (remove, green tea,
\* 2.5, kg, top shelf).
C21_ItemFirstParsed ==
   /\ IsForm
   /\ last.args.form = "item-first"
   /\ last.args.text = <<"d","e","d","u","c","t"," ","g","r","e","e","n"," ","t","e","a"," ","2",",","5","0"," ","k","i","l","o","s"," ","f","r","o","m"," ","T","o","p"," ","s","h","e","l","f">>
   /\ last.result.action = A_remove
   /\ last.result.item = <<"g","r","e","e","n"," ","t","e","a">>
   /\ last.result.quantity.whole = 2 /\ last.result.quantity.frac = <<"5">>
   /\ last.result.unit = <<"k","g">>
   /\ last.result.location = <<"t","o","p"," ","s","h","e","l","f">>

\* The keyword the keyword loop stops at: the first of ACTION_WORDS that
\* the lowercased text has; <<>> when it has none.
MatchedKeyword(low) ==
   LET hits == {i \in 1..Len(ACTION_WORDS) : HasKeyword(low, ACTION_WORDS[i])}
   IN  IF hits = {} THEN <<>>
       ELSE ACTION_WORDS[CHOOSE i \in hits : \A j \in hits : i <= j]

\* The text left for extraction when only the matched keyword kw is removed
\* from the start.
WithoutMatched(low, kw) ==
   IF StartsWith(low, kw \o <<" ">>) THEN DropFirst(low, Len(kw) + 1) ELSE low

\* C22: before extraction the parser removes from the start of the text
\* only the action keyword that was matched, with the blank after it; a
\* text that starts with another action keyword is parsed whole, that
\* leading word included.
C22_OnlyMatchedKeywordRemoved ==
   (last.op = "parse_inventory_command" /\ last.args.text # None) =>
      LET low == Lower(Strip(last.args.text))
      IN  MatchedKeyword(low) # <<>> =>
             last.result =
                Command(ActionOf(low),
                        Extracted(WithoutMatched(low, MatchedKeyword(low))))

\* 'Remove add Rice' is matched by add, starts with remove, and is parsed
\* as the item 'add rice': the leading 'remove ' was removed.
C22_OtherKeywordRemoved ==
   /\ last.op = "parse_inventory_command"
   /\ last.args.text = <<"R","e","m","o","v","e"," ","a","d","d"," ","R","i","c","e">>
   /\ last.result.action = A_add
   /\ last.result.item = <<"a","d","d"," ","r","i","c","e">>

\* The first word of a phrase: its characters before the first blank.
FirstWord(s) ==
   IF Find(s, <<" ">>) = 0 THEN s ELSE SubSeq(s, 1, Find(s, <<" ">>) - 1)

\* A phrase without its first word when that word is a filler, in any letter
\* case, with a blank after it; the phrase itself otherwise.
WithoutOneFiller(s) ==
   IF /\ Find(s, <<" ">>) # 0
      /\ Lower(FirstWord(s)) \in {<<"o","f">>, <<"t","h","e">>, <<"a">>, <<"a","n">>}
      THEN Strip(DropFirst(s, Len(FirstWord(s))))
   ELSE s

\* C23: _clean_item trims the phrase and removes a single leading filler
\* word among 'of', 'the', 'a', 'an', in any letter case; of two leading
\* filler words the second one is kept.
C23_SingleFillerRemoved ==
   last.op = "_clean_item" =>
      last.result = WithoutOneFiller(Strip(last.args.item))

\* _clean_item('The a rice') is 'rice': both filler words are removed.
C23_TwoFillersRemoved ==
   /\ last.op = "_clean_item"
   /\ last.args.item = <<"T","h","e"," ","a"," ","r","i","c","e">>
   /\ last.result = <<"r","i","c","e">>

\* The extraction strategy a parsed text reaches ("none" without an action
\* keyword or without a number) and the phrase it leaves over after
\* quantity and unit.
StrategyOf(low) ==
   IF ActionOf(low) = None THEN "none"
   ELSE IF PatternA(RestOf(low)).matched THEN "quantity-first"
   ELSE IF PatternB(RestOf(low)).matched THEN "item-first"
   ELSE IF PatternSearch(RestOf(low)).matched THEN "fallback"
   ELSE "none"

LeftOver(low) ==
   Strip(CASE StrategyOf(low) = "quantity-first" -> PatternA(RestOf(low)).item
           [] StrategyOf(low) = "item-first" -> PatternB(RestOf(low)).tail
           [] StrategyOf(low) = "fallback" -> PatternSearch(RestOf(low)).tail
           [] OTHER -> <<>>)

\* The first of ' to ', ' from ', ' in ', in that order, that a phrase
\* holds (<<>> when it holds none), and the first of 'to ', 'from ', 'in '
\* it starts with.
SeparatorIn(ph) ==
   IF Find(ph, <<" ","t","o"," ">>) # 0 THEN <<" ","t","o"," ">>
   ELSE IF Find(ph, <<" ","f","r","o","m"," ">>) # 0 THEN <<" ","f","r","o","m"," ">>
   ELSE IF Find(ph, <<" ","i","n"," ">>) # 0 THEN <<" ","i","n"," ">>
   ELSE <<>>

LeadingSeparator(ph) ==
   IF StartsWith(ph, <<"t","o"," ">>) THEN <<"t","o"," ">>
   ELSE IF StartsWith(ph, <<"f","r","o","m"," ">>) THEN <<"f","r","o","m"," ">>
   ELSE IF StartsWith(ph, <<"i","n"," ">>) THEN <<"i","n"," ">>
   ELSE <<>>

BeforeSeparator(ph) == Strip(SubSeq(ph, 1, Find(ph, SeparatorIn(ph)) - 1))

AfterSeparator(ph) ==
   Strip(DropFirst(ph, Find(ph, SeparatorIn(ph)) + Len(SeparatorIn(ph)) - 1))

\* What the claim says of a left-over phrase ph and the command returned:
\* cut at the separator, or not understood for a phrase that starts with
\* the separator word.
CutAtSeparator(ph, result) ==
   /\ (SeparatorIn(ph) # <<>> /\ result # NoCommand) =>
         /\ result.location = AfterSeparator(ph)
         /\ result.item = CleanItem(BeforeSeparator(ph))
   /\ (SeparatorIn(ph) = <<>> /\ LeadingSeparator(ph) # <<>>) =>
         result = NoCommand

\* The claim as it stands: in every extraction strategy the location is the
\* text after the first separator of the left-over phrase in the order to,
\* from, in and the item the text before it, and a left-over phrase that
\* starts with 'to ', 'from ' or 'in ' is not understood.
C24_EveryStrategyCutsLeftOver ==
   (last.op = "parse_inventory_command" /\ last.args.text # None) =>
      LET low == Lower(Strip(last.args.text))
      IN  StrategyOf(low) # "none" => CutAtSeparator(LeftOver(low), last.result)

\* C24 (amended): in the quantity-first and fallback strategies the location
\* is the text after the first separator of the left-over phrase in the
\* order to, from, in and the item the cleaned text before it, and a
\* left-over phrase that starts with 'to ', 'from ' or 'in ' is not
\* understood; in the item-first strategy the item is the cleaned text
\* before the number, whatever follows it, and the location is what follows
\* the first separator of the trailing text in that order, or the leading
\* 'to ', 'from ' or 'in ' of the trailing text.
C24_LocationFromLeftOver ==
   (last.op = "parse_inventory_command" /\ last.args.text # None) =>
      LET low == Lower(Strip(last.args.text))
          ph  == LeftOver(low)
      IN  /\ StrategyOf(low) \in {"quantity-first", "fallback"} =>
                CutAtSeparator(ph, last.result)
          /\ StrategyOf(low) = "item-first" =>
                IF CleanItem(PatternB(RestOf(low)).item) = <<>>
                   THEN last.result = NoCommand
                ELSE /\ last.result # NoCommand
                     /\ last.result.item = CleanItem(PatternB(RestOf(low)).item)
                     /\ last.result.location =
                           IF SeparatorIn(ph) # <<>> THEN AfterSeparator(ph)
                           ELSE IF LeadingSeparator(ph) # <<>>
                              THEN Strip(DropFirst(ph, Len(LeadingSeparator(ph))))
                           ELSE <<>>

\* 'add 5 kg box in to rice': a quantity-first text whose left-over phrase
\* holds ' in ' before ' to ' is cut at ' to '.
C24_CutAtToAfterIn ==
   /\ last.op = "parse_inventory_command"
   /\ last.args.text = <<"a","d","d"," ","5"," ","k","g"," ","b","o","x"," ","i","n"," ","t","o"," ","r","i","c","e">>
   /\ last.result # NoCommand
   /\ last.result.item = <<"b","o","x"," ","i","n">>
   /\ last.result.location = <<"r","i","c","e">>
\* An email, stripped and lowercased, that is not of the form
\* local@domain.tld.
Malformed(e) ==
   ~ \E k \in 2..Len(e), j \in 1..(Len(e) - 1) :
        /\ e[k] = AtSign /\ e[j] = "." /\ j > k + 1
        /\ \A i \in 1..Len(e) : e[i] # " " /\ (e[i] = AtSign => i = k)

\* A password shorter than 8 characters, or without an uppercase letter, or
\* made of letters and digits only.
Weak(p) ==
   \/ Len(p) < 8
   \/ \A i \in 1..Len(p) : ~(IsLetter(p[i]) /\ IsUpper(p[i]))
   \/ \A i \in 1..Len(p) : IsLetter(p[i]) \/ IsDigit(p[i])

\* The country code and the digits of a phone number, as one number.
PhoneOf(cc, phone) ==
   LET code == SelectSeq(cc, LAMBDA c : c # " ")
       plus == IF code # <<>> /\ code[1] = "+" THEN code ELSE <<"+">> \o code
   IN  plus \o SelectSeq(phone, LAMBDA c : c \in {DIGITS[n] : n \in 1..10})

\* No two stored users share an email or a phone number.
UsersDistinct(table) ==
   \A u, v \in table : u # v => u.email # v.email /\ u.phone_e164 # v.phone_e164

\* C25: create_user returns (False, message) and adds no user when the
\* email is malformed, the password is weak, or a stored user has the same
\* lowercased email or the same normalized phone number; after every call
\* the stored users have pairwise distinct emails and pairwise distinct
\* phone numbers.
C25_CreateUserRejects ==
   [][Calls("create_user") =>
         LET a == last'.args
             email_n == Lower(Strip(OrEmpty(a.email)))
         IN  /\ (\/ Malformed(email_n)
                 \/ Weak(OrEmpty(a.pwd))
                 \/ \E u \in users : \/ u.email = email_n
                                     \/ u.phone_e164 = PhoneOf(a.cc, a.phone))
                  => /\ last'.result.ok = FALSE
                     /\ last'.result.message # ""
                     /\ users' = users
             /\ UsersDistinct(users')]_vars

\* A second sign-up with the email of a stored user in another case and
\* another phone number has been turned down.
C25_SameEmailOtherCase ==
   /\ last.op = "create_user"
   /\ last.args.email = <<" ","A","n","n","@","X",".","i","o"," ">>
   /\ last.result = Answer(FALSE, "Account already exists for this email.")
   /\ \E u \in users : /\ u.email = <<"a","n","n","@","x",".","i","o">>
                       /\ u.phone_e164 # PhoneOf(last.args.cc, last.args.phone)

\* The canonical tag of the unit of a command of UnitCommands.
TagOf(unit) ==
   IF unit \in {<<"K","G","S">>, <<"k","i","l","o">>} THEN <<"k","g">>
   ELSE IF unit = <<"l","t","r">> THEN <<"l">>
   ELSE <<>>

\* The owner's items of the name of the command in table.
ItemsNamed(table, owner, item_raw) ==
   {i \in table : /\ i.owner_key = owner
                  /\ i.normalized_name = Lower(CleanItem(item_raw))}

\* C26: an item's default unit is set by the first recorded command for the
\* item that carries a unit and never changes afterwards; a command without
\* a unit stores the item's default unit on its transaction, a command with
\* a unit stores its own canonical unit, and only the unit of the item can
\* change; a refused command leaves the items as they are.
C26_DefaultUnitSetOnce ==
   [][Calls("record_command") =>
         LET c == last'.args.command
             old == ItemsNamed(items, last'.owner, c.item)
             new == ItemsNamed(items', last'.owner, c.item)
         IN  /\ \A i \in items :
                  \E j \in items' : /\ j.id = i.id
                                    /\ i.unit # <<>> => j = i
                                    /\ j = [i EXCEPT !.unit = j.unit]
                                    /\ i \notin old => j = i
             /\ last'.outcome = "InventoryError" => items' = items
             /\ last'.outcome = "ok" =>
                  \E j \in new, t \in txns' \ txns :
                     /\ new = {j} /\ txns' \ txns = {t} /\ t.item_id = j.id
                     /\ j.unit = IF \E i \in old : i.unit # <<>>
                                    THEN (CHOOSE i \in old : TRUE).unit
                                 ELSE TagOf(c.unit)
                     /\ t.unit = IF TagOf(c.unit) # <<>> THEN TagOf(c.unit)
                                 ELSE j.unit]_vars

\* An item first added without a unit, then in kg, then in litres: its
\* default unit is kg, and its three transactions are without a unit, in kg
\* and in litres.
C26_ThreeUnitsOneItem ==
   /\ last.op = "record_command" /\ last.outcome = "ok"
   /\ last.args.command.unit = <<"l","t","r">>
   /\ last.result.unit = <<"l">>
   /\ \E i \in items :
         /\ i.unit = <<"k","g">>
         /\ {t.unit : t \in {x \in txns : x.item_id = i.id}} = {<<>>, <<"k","g">>, <<"l">>}

\* The rows of aggregate_inventory of every tenant.
AggregateRows ==
   UNION {{AggregateInventory(o)[k] : k \in 1..Len(AggregateInventory(o))} : o \in Services}

\* C27: with commands recorded one after another and nothing deleted, no
\* row of aggregate_inventory has a negative net_quantity, also when an
\* item is added in one unit and removed in another.
C27_NoNegativeAggregateRow ==
   \A row \in AggregateRows : row.net_quantity >= 0

\* A removal in kg of an item that was added in litres only has been
\* recorded: the aggregate has a row of the item in kg below zero next to a
\* row of the same item and location in litres.
C27_RemovedInOtherUnit ==
   /\ last.op = "record_command" /\ last.outcome = "ok"
   /\ last.result.action = A_remove /\ last.result.unit = <<"k","g">>
   /\ \E row, other \in AggregateRows :
         /\ row.unit = <<"k","g">> /\ row.net_quantity < 0
         /\ other.item = row.item /\ other.location = row.location
         /\ other.unit = <<"l">> /\ other.net_quantity > 0

\* The step is the commit of the snapshot under way.
SnapshotCommitted == last.op = "snapshot_read" /\ last'.op = "create_snapshot"

\* C28 as claimed: whatever other calls of the tenant ran since
\* create_snapshot was called, the data of the snapshot it commits is the
\* tenant's aggregate at the moment of the commit.
C28_SnapshotOfCommitMoment ==
   [][SnapshotCommitted =>
         \A s \in snaps' \ snaps :
            s.data = DumpsRows(AggregateInventoryIn(items', txns', last'.owner))]_vars

\* C28, amended: the data of the snapshot create_snapshot commits is the
\* tenant's aggregate at the moment the call read it, whatever calls were
\* committed between the read and the commit; with none in between it is
\* the aggregate at the commit.
C28_SnapshotOfReadMoment ==
   [][SnapshotCommitted =>
         \E s \in snaps' :
            /\ snaps' \ snaps = {s}
            /\ s.owner_key = last'.owner
            /\ s.data = DumpsRows(AggregateInventoryIn(last.args.items_read,
                                                       last.args.txns_read,
                                                       last'.owner))
            /\ last'.result.data
                  = AggregateInventoryIn(last.args.items_read, last.args.txns_read,
                                         last'.owner)]_vars

\* A snapshot has been committed whose data is not the aggregate of the
\* tenant's transactions: a transaction of the tenant was recorded or
\* deleted after the call read the aggregate.
C28_StaleSnapshotCommitted ==
   /\ last.op = "create_snapshot"
   /\ \E s \in snaps :
         /\ s.id = last.result.id
         /\ s.owner_key = last.owner
         /\ s.data # DumpsRows(AggregateInventory(last.owner))

\* The transactions the tenant of the call in last' had before it.
Owned == {t \in txns : t.owner_key = last'.owner}

\* C29: clear_transactions returns the number of transactions the tenant
\* had; afterwards list_transactions is empty for the tenant, the audit log
\* has grown by exactly one 'inventory.delete' entry of the tenant per
\* removed transaction, and items, snapshots and the other tenants'
\* transactions are as before; on a tenant without transactions it returns
\* 0 and writes nothing.
C29_ClearRemovesAllOwn ==
   [][Calls("clear_transactions") =>
         /\ last'.outcome = "ok"
         /\ last'.result = Cardinality(Owned)
         /\ ListTransactionsIn(items', txns', last'.owner) = <<>>
         /\ SubSeq(audits', 1, Len(audits)) = audits
         /\ \A t \in Owned :
               Cardinality({k \in Added : /\ audits'[k].reference_id = t.id
                                          /\ audits'[k].action = AUDIT_DELETE
                                          /\ audits'[k].entity = ENTITY_TXN
                                          /\ audits'[k].owner_key = last'.owner}) = 1
         /\ Cardinality(Added) = Cardinality(Owned)
         /\ items' = items /\ snaps' = snaps
         /\ {t \in txns' : t.owner_key # last'.owner}
               = {t \in txns : t.owner_key # last'.owner}
         /\ Owned = {} => last'.result = 0 /\ store' = store]_vars

\* clear_transactions has removed the two transactions of a tenant and
\* returned 2, and the last two audit entries are their deletions.
C29_TwoCleared ==
   /\ last.op = "clear_transactions" /\ last.result = 2
   /\ \A t \in txns : t.owner_key # last.owner
   /\ Len(audits) = 4
   /\ {audits[3].reference_id, audits[4].reference_id} = {1, 2}
   /\ audits[3].action = AUDIT_DELETE /\ audits[4].action = AUDIT_DELETE

\* The stored OTPs of a user for a purpose.
OtpsOf(table, u, purpose) ==
   {r \in table : r.email = u.email /\ r.purpose = purpose}

\* C30: a verify_otp that succeeds for a user and purpose found a stored,
\* unexpired OTP of that user and purpose with the code given and deletes
\* every OTP of that user and purpose and no other, so that the same call
\* made again fails; a verify_otp that fails, as every one does while the
\* user has no OTP of the purpose, deletes nothing; and only
\* generate_otp_for adds an OTP.
C30_OtpSingleUse ==
   [][/\ otps' \ otps # {} => last'.op = "generate_otp_for"
      /\ Calls("verify_otp") =>
            LET a == last'.args
            IN  /\ last'.result.ok =>
                      \E u \in users :
                         /\ \E r \in OtpsOf(otps, u, a.purpose) :
                               /\ clock <= r.expires_at
                               /\ r.code = SelectSeq(a.code, LAMBDA c : c # " ")
                         /\ otps' = otps \ OtpsOf(otps, u, a.purpose)
                         /\ ~VerifyFound(otps', FindUserByEmailOrPhone(users', a.identifier),
                                         clock', a.code, a.purpose).value.ok
                /\ ~last'.result.ok => otps' = otps
                /\ (\A u \in users : OtpsOf(otps, u, a.purpose) = {}) => ~last'.result.ok
                /\ \A r \in otps : r.purpose # a.purpose => r \in otps']_vars

\* verify_otp has succeeded for a user who still holds an OTP of the other
\* purpose with the same code.
C30_OtherPurposeKept ==
   /\ last.op = "verify_otp" /\ last.result.ok
   /\ \E u \in users, r \in otps :
         /\ u.phone_e164 = last.args.identifier
         /\ r.email = u.email
         /\ r.purpose # last.args.purpose
         /\ r.code = last.args.code

=============================================================================
